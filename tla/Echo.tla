-------------------------------- MODULE Echo --------------------------------
(***************************************************************************)
(* One connection end to end: the requests a client writes to the stream,  *)
(* connect::on_msg and the buffer that cut messages out of it (connect.cc, *)
(* buffer.cc), the work pool that answers them (echosvr.cc) and the way of *)
(* the replies back to the client's recv().                                *)
(*                                                                         *)
(* A stream is a sequence of cells.  A request is the cell <<i, 0>> of its *)
(* header (four bytes in the code, not divided here) and a body            *)
(* <<i, 1>>, ..., <<i, BodyLen[i]>>; part k of the reply to the j-th       *)
(* message handed up is <<j, k>>.  The connection is the only one of its   *)
(* loop: the other channels, eventfd and timer, report nothing but IN.     *)
(***************************************************************************)
EXTENDS Naturals, Sequences

CONSTANTS
    N,         \* number of requests the client sends
    BodyLen,   \* cells of the body of each request
    ReplyLen,  \* cells of the reply to each request
    Workers,   \* threads of the work pool
    Cap,       \* cells of buf in on_msg (1024 bytes)
    CopyLen,   \* cells that send() copies of a reply (30 bytes)
    SndCap,    \* cells the send buffer of the socket takes
    None       \* a worker without a job

ASSUME LengthsAssumption ==
    /\ N \in Nat
    /\ {BodyLen, ReplyLen} \subseteq [1..N -> Nat \ {0}]
    /\ {Cap, CopyLen, SndCap} \subseteq Nat \ {0}
    /\ \A i \in 1..N : BodyLen[i] < Cap
ASSUME NoneAssumption == None \notin Nat

VARIABLES
    env,      \* what this behaviour's surroundings are like, see Init
    asked,    \* requests the client has sent
    answers,  \* what each recv() of the client returned
    received, \* history: these, joined
    closed,   \* the client has closed its end
    wire,     \* sent by the client, not arrived
    inq,      \* the receive buffer of the connection
    sockbuf,  \* its send buffer, up to the client's recv()
    edge,     \* an event with OUT is on the ready list of the epoll
    lpc,      \* the loop's thread: "wait", or in on_msg at "read" or "pick"
    inbuf,    \* connect::_input_buf
    outbuf,   \* connect::_output_buf; OUT is registered while it is not empty
    disconn,  \* connect::_disconn
    handed,   \* history: the messages given to _msg_cb
    jobs,     \* queue of the work pool: the messages' places in handed
    job,      \* what each worker works on
    wpc,      \* where it is: "idle", "send", "copy"
    tasks,    \* eventloop::_tasks: the copied replies
    swallowed,\* history: that event was consumed by on_msg, and none came since
    fault     \* "none"; "overrun": on_msg read past buf; "exit": exit(-1)

client == <<asked, answers, received, closed>>
net    == <<wire, inq>>
out    == <<sockbuf, edge, swallowed, outbuf>>
pool   == <<jobs, job, wpc, tasks>>
vars   == <<env, client, net, out, lpc, inbuf, disconn, handed, pool, fault>>

Filler   == <<0, 0>>   \* zeros of buf, or what send() finds behind its copy
Body(i)  == [k \in 1..BodyLen[i] |-> <<i, k>>]
Frame(i) == << <<i, 0>> >> \o Body(i)

\* What the first four bytes of a read are as an int.
LenOf(cell) ==
    IF cell = Filler THEN 0
    ELSE IF cell[2] = 0 THEN BodyLen[cell[1]]
    ELSE env.value

Requests == 1..N

\* The reply to the j-th message; what does not parse is answered by one cell.
Reply(j, msg) ==
    LET size == IF \E i \in Requests : msg = Body(i)
                THEN ReplyLen[CHOOSE i \in Requests : msg = Body(i)]
                ELSE 1
    IN  [k \in 1..size |-> <<j, k>>]

Room     == SndCap - Len(sockbuf)
EndOfIn  == closed /\ wire = <<>>   \* read() returns 0 behind inq
Running  == fault = "none"
LoopAt(l) == Running /\ lpc = l

\* patient: the client waits for one recv() after each request, as the test
\*   client does, or else does not wait;
\* split: the network may deliver any part of what was sent;
\* pooled: the work pool has threads (echosvr.cc:37);
\* value: what a body is as a length.
Init ==
    /\ env \in [patient : BOOLEAN, split : BOOLEAN, pooled : BOOLEAN, value : {1, Cap}]
    /\ asked = 0 /\ answers = <<>> /\ received = <<>> /\ closed = FALSE
    /\ wire = <<>> /\ inq = <<>>
    /\ sockbuf = <<>> /\ edge = FALSE /\ swallowed = FALSE /\ outbuf = <<>>
    /\ lpc = "wait" /\ inbuf = <<>> /\ disconn = FALSE /\ handed = <<>>
    /\ jobs = <<>> /\ tasks = <<>>
    /\ job = [w \in Workers |-> None] /\ wpc = [w \in Workers |-> "idle"]
    /\ fault = "none"

-----------------------------------------------------------------------------
(* The client and the network. *)

Ask ==
    /\ Running /\ ~closed /\ asked < N
    /\ env.patient => Len(answers) = asked
    /\ asked' = asked + 1
    /\ wire' = wire \o Frame(asked + 1)
    /\ UNCHANGED <<env, answers, received, closed, inq, out, lpc, inbuf, disconn, handed, pool, fault>>

\* Whole requests, unless the network splits them.
Arrivals ==
    { n \in 1..Len(wire) : env.split \/ n = Len(wire) \/ wire[n + 1][2] = 0 }

Deliver ==
    /\ Running
    /\ \E n \in Arrivals :
          /\ inq' = inq \o SubSeq(wire, 1, n)
          /\ wire' = SubSeq(wire, n + 1, Len(wire))
    /\ UNCHANGED <<env, client, out, lpc, inbuf, disconn, handed, pool, fault>>

\* A full send buffer that gets room is an event if OUT is registered.
Recv ==
    /\ Running /\ ~closed
    /\ \E n \in 1..Len(sockbuf) :
          /\ env.split \/ n = Len(sockbuf)
          /\ answers' = Append(answers, SubSeq(sockbuf, 1, n))
          /\ received' = received \o SubSeq(sockbuf, 1, n)
          /\ sockbuf' = SubSeq(sockbuf, n + 1, Len(sockbuf))
    /\ edge' = (edge \/ (outbuf # <<>> /\ Room = 0))
    /\ UNCHANGED <<env, asked, closed, net, swallowed, outbuf, lpc, inbuf, disconn, handed, pool, fault>>

Close ==
    /\ Running /\ ~closed
    /\ closed' = TRUE
    /\ UNCHANGED <<env, asked, answers, received, net, out, lpc, inbuf, disconn, handed, pool, fault>>

-----------------------------------------------------------------------------
(* The loop's thread in on_msg. *)

\* With input, or for an event with OUT alone: that event is taken for the
\* IN of eventfd or timer when one of them is reported first (poller.cc:60).
\* If IN and OUT come together only on_msg is called (channel.cc:75).
OnMsg ==
    /\ LoopAt("wait") /\ ~disconn
    /\ inq # <<>> \/ EndOfIn \/ edge
    /\ lpc' = "read"
    /\ edge' = FALSE
    /\ swallowed' = (swallowed \/ edge)
    /\ UNCHANGED <<env, client, net, sockbuf, outbuf, inbuf, disconn, handed, pool, fault>>

\* The cells of buf that are appended: as many as its first cell says, be
\* they read or not.
Taken(read) ==
    [k \in 1..(LenOf(read[1]) + 1) |-> IF k <= Len(read) THEN read[k] ELSE Filler]

Read ==
    /\ LoopAt("read") /\ inq # <<>>
    /\ LET n    == IF Len(inq) < Cap THEN Len(inq) ELSE Cap
           read == SubSeq(inq, 1, n)
       IN  /\ inq' = SubSeq(inq, n + 1, Len(inq))
           /\ IF LenOf(read[1]) + 1 > Cap
              THEN fault' = "overrun" /\ inbuf' = inbuf
              ELSE fault' = fault /\ inbuf' = inbuf \o Taken(read)
    /\ UNCHANGED <<env, client, wire, out, lpc, disconn, handed, pool>>

ReadAgain ==
    /\ LoopAt("read") /\ inq = <<>> /\ ~EndOfIn
    /\ lpc' = "pick"
    /\ UNCHANGED <<env, client, net, out, inbuf, disconn, handed, pool, fault>>

\* on_close(); the channel is removed, which takes its events with it.
ReadEnd ==
    /\ LoopAt("read") /\ inq = <<>> /\ EndOfIn
    /\ lpc' = "wait"
    /\ disconn' = TRUE
    /\ edge' = FALSE
    /\ UNCHANGED <<env, client, net, sockbuf, swallowed, outbuf, inbuf, handed, pool, fault>>

\* Mutant of SendInLoop: output is appended without enable_write().
SendInLoopQuietly(reply) ==
    /\ outbuf' = outbuf \o reply
    /\ UNCHANGED <<edge, swallowed, fault>>

\* send_in_loop: EPOLL_CTL_MOD looks at the descriptor, and fails if on_close
\* has deleted it.
SendInLoop(reply) ==
    IF disconn
    THEN fault' = "exit" /\ UNCHANGED <<outbuf, edge, swallowed>>
    ELSE /\ outbuf' = outbuf \o reply
         /\ edge' = (Room > 0)
         /\ swallowed' = FALSE
         /\ fault' = fault

\* Mutant of Message: substr(0, len) instead of substr(4, len).
MessageFromStart == SubSeq(inbuf, 1, LenOf(inbuf[1]))

Message == SubSeq(inbuf, 2, LenOf(inbuf[1]) + 1)
\* Mutant of Rest: erase(0, len): the last bytes of a message stay in the buffer.
RestOfLength == SubSeq(inbuf, LenOf(inbuf[1]) + 1, Len(inbuf))

\* Mutant of Rest: the message is copied out of the buffer and not erased.
RestWhole == inbuf

Rest == SubSeq(inbuf, LenOf(inbuf[1]) + 2, Len(inbuf))
Whole   == inbuf # <<>> /\ Len(inbuf) >= LenOf(inbuf[1]) + 1

\* pick_msg() and the callback: a job, or the answer at once.
PickMsg ==
    /\ LoopAt("pick") /\ Whole
    /\ inbuf' = Rest
    /\ handed' = Append(handed, Message)
    /\ \/ /\ env.pooled
          /\ jobs' = Append(jobs, Len(handed) + 1)
          /\ UNCHANGED <<outbuf, edge, swallowed, fault>>
       \/ /\ ~env.pooled
          /\ SendInLoop(Reply(Len(handed) + 1, Message))
          /\ UNCHANGED jobs
    /\ UNCHANGED <<env, client, net, sockbuf, lpc, disconn, job, wpc, tasks>>

EndPick ==
    /\ LoopAt("pick") /\ ~Whole
    /\ lpc' = "wait"
    /\ UNCHANGED <<env, client, net, out, inbuf, disconn, handed, pool, fault>>

-----------------------------------------------------------------------------
(* The workers, in echosvr::on_msg. *)

WorkerAt(w, l) == Running /\ wpc[w] = l

TakeJob(w) ==
    /\ WorkerAt(w, "idle") /\ jobs # <<>>
    /\ job' = [job EXCEPT ![w] = Head(jobs)]
    /\ jobs' = Tail(jobs)
    /\ wpc' = [wpc EXCEPT ![w] = "send"]
    /\ UNCHANGED <<env, client, net, out, lpc, inbuf, disconn, handed, tasks, fault>>

\* Mutant of CheckConn: a worker that finds the client gone goes on with its job in hand.
CheckConnKeepingJob(w) ==
    /\ WorkerAt(w, "send")
    /\ wpc' = [wpc EXCEPT ![w] = IF disconn THEN "idle" ELSE "copy"]
    /\ UNCHANGED <<env, client, net, out, lpc, inbuf, disconn, handed, jobs, job, tasks, fault>>

\* connect.cc:100; the reply is dropped if the client is gone by now.
CheckConn(w) ==
    /\ WorkerAt(w, "send")
    /\ wpc' = [wpc EXCEPT ![w] = IF disconn THEN "idle" ELSE "copy"]
    /\ job' = [job EXCEPT ![w] = IF disconn THEN None ELSE @]
    /\ UNCHANGED <<env, client, net, out, lpc, inbuf, disconn, handed, jobs, tasks, fault>>

\* send_in_loop will append as many cells as the reply had.
Copy(reply) == [k \in DOMAIN reply |-> IF k <= CopyLen THEN reply[k] ELSE Filler]

Post(w) ==
    /\ WorkerAt(w, "copy")
    /\ tasks' = Append(tasks, Copy(Reply(job[w], handed[job[w]])))
    /\ wpc' = [wpc EXCEPT ![w] = "idle"]
    /\ job' = [job EXCEPT ![w] = None]
    /\ UNCHANGED <<env, client, net, out, lpc, inbuf, disconn, handed, jobs, fault>>

-----------------------------------------------------------------------------
(* The loop's thread with output. *)

RunTask ==
    /\ LoopAt("wait") /\ tasks # <<>>
    /\ SendInLoop(Head(tasks))
    /\ tasks' = Tail(tasks)
    /\ UNCHANGED <<env, client, net, sockbuf, lpc, inbuf, disconn, handed, jobs, job, wpc>>

\* Mutant of Send: a short write keeps the whole buffer and sends it again.
SendKeepingAll ==
    /\ sockbuf' = sockbuf \o SubSeq(outbuf, 1, IF Len(outbuf) < Room THEN Len(outbuf) ELSE Room)
    /\ outbuf' = IF Len(outbuf) <= Room THEN <<>> ELSE outbuf

\* What the send buffer does not take is erased with the rest.
Send ==
    /\ sockbuf' = sockbuf \o SubSeq(outbuf, 1, IF Len(outbuf) < Room THEN Len(outbuf) ELSE Room)
    /\ outbuf' = <<>>

WriteCb ==
    /\ LoopAt("wait") /\ edge /\ inq = <<>> /\ ~EndOfIn
    /\ Send
    /\ edge' = FALSE /\ swallowed' = FALSE
    /\ UNCHANGED <<env, client, net, lpc, inbuf, disconn, handed, pool, fault>>

-----------------------------------------------------------------------------
Loop == OnMsg \/ Read \/ ReadAgain \/ ReadEnd \/ PickMsg \/ EndPick

Worker(w) == TakeJob(w) \/ CheckConn(w) \/ Post(w)

Next ==
    \/ Ask \/ Deliver \/ Recv \/ Close
    \/ Loop \/ RunTask \/ WriteCb
    \/ \E w \in Workers : Worker(w)

\* The network delivers, a client that can read does, and threads are
\* scheduled.  epoll reports everything that is ready, the eventfd included,
\* so the loop runs tasks however busy the connection is.
Fairness ==
    /\ WF_vars(Deliver) /\ WF_vars(Recv)
    /\ WF_vars(Loop \/ RunTask \/ WriteCb) /\ SF_vars(RunTask)
    /\ \A w \in Workers : WF_vars(Worker(w))

Spec == Init /\ [][Next]_vars /\ Fairness

-----------------------------------------------------------------------------
(* Properties. *)

Cells == (0..N) \X Nat
Parts == Nat \X Nat

\* Types, and that a worker has a job exactly while it works.
TypeOK ==
    /\ env \in [patient : BOOLEAN, split : BOOLEAN, pooled : BOOLEAN, value : {1, Cap}]
    /\ asked \in 0..N /\ answers \in Seq(Seq(Parts)) /\ received \in Seq(Parts) /\ closed \in BOOLEAN
    /\ {wire, inq, inbuf} \subseteq Seq(Cells)
    /\ {sockbuf, outbuf} \subseteq Seq(Parts)
    /\ Len(sockbuf) <= SndCap
    /\ edge \in BOOLEAN /\ swallowed \in BOOLEAN /\ disconn \in BOOLEAN
    /\ lpc \in {"wait", "read", "pick"}
    /\ handed \in Seq(Seq(Cells)) /\ tasks \in Seq(Seq(Parts))
    /\ jobs \in Seq(1..Len(handed))
    /\ wpc \in [Workers -> {"idle", "send", "copy"}]
    /\ job \in [Workers -> Nat \cup {None}]
    /\ \A w \in Workers : job[w] \in IF wpc[w] = "idle" THEN {None} ELSE 1..Len(handed)
    /\ fault \in {"none", "overrun", "exit"}

\* One request at a time, each delivered whole.
OneByOne == env.patient /\ ~env.split

\* What on_msg appended it has picked when it returns, unless it returned from
\* the end of the stream (connect.cc:89-93); a client that waits for its
\* answers has every request that arrived handed up, and unaltered.
NoMessageStranded ==
    lpc = "wait" /\ ~disconn =>
        /\ inbuf = <<>>
        /\ OneByOne /\ wire \o inq = <<>> /\ Running =>
               handed = [i \in 1..asked |-> Body(i)]

\* Whatever reads return, no request is handed up twice or after a later one,
\* although requests that arrive together or in parts are lost or garbled
\* (connect.cc:71).
RequestsInOrder ==
    \A p, q \in DOMAIN handed : p < q =>
        \A i, j \in Requests : handed[p] = Body(i) /\ handed[q] = Body(j) => i < j

\* A reply reaches the client once and from its beginning, whatever the send
\* buffer takes: a short write loses the rest of what was buffered
\* (connect.cc:123), but repeats nothing, mixes nothing and leaves no hole.
RepliesArePrefixes ==
    LET replies == received \o sockbuf \o outbuf
    IN  \A p \in DOMAIN replies : replies[p] # Filler =>
            /\ \A q \in DOMAIN replies : q # p => replies[q] # replies[p]
            /\ replies[p][2] > 1 =>
                   p > 1 /\ replies[p - 1] = <<replies[p][1], replies[p][2] - 1>>

\* What the empty send buffer takes of a reply.
Sendable(i) == IF ReplyLen[i] <= SndCap THEN ReplyLen[i] ELSE SndCap

\* What each recv() of such a client returns is the reply to its request, as
\* much as the send buffer takes of it at once (connect.cc:123), save that the
\* pool's copy has 30 bytes of it (connect.cc:111).
AnswersMatch ==
    OneByOne => \A i \in DOMAIN answers :
        /\ Len(answers[i]) = Sendable(i)
        /\ \A k \in 1..Sendable(i) :
               ~env.pooled \/ k <= CopyLen => answers[i][k] = <<i, k>>

\* Such a client is answered, whichever thread computes the reply and long or
\* short, unless it leaves; the one way an answer can be held up is an OUT
\* event taken by on_msg (poller.cc:60, channel.cc:75).
AnsweredUnlessSwallowed ==
    \A i \in Requests :
        (OneByOne /\ asked = i) ~> (Len(answers) >= i \/ closed \/ swallowed)
=============================================================================
