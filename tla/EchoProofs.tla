----------------------------- MODULE EchoProofs -----------------------------
(***************************************************************************)
(* Theorems about Echo, for every number, length and cut of the requests.  *)
(***************************************************************************)
EXTENDS Echo, Least, SequenceTheorems

-----------------------------------------------------------------------------
(* Sequences *)

\* What s holds in its places m to n.
LEMMA Slice ==
    ASSUME NEW S, NEW s \in Seq(S), NEW m \in Nat \ {0}, NEW n \in Nat, n <= Len(s), m <= n + 1
    PROVE  /\ SubSeq(s, m, n) \in Seq(S)
           /\ Len(SubSeq(s, m, n)) = n + 1 - m
           /\ \A k \in 1..(n + 1 - m) : SubSeq(s, m, n)[k] = s[m - 1 + k]
<1>1. SubSeq(s, m, n) = [k \in 1..(n + 1 - m) |-> s[m - 1 + k]]
  OBVIOUS
<1>2. \A k \in 1..(n + 1 - m) : s[m - 1 + k] \in S
  OBVIOUS
<1> QED
  BY <1>1, <1>2

LEMMA Joined ==
    ASSUME NEW S, NEW s \in Seq(S), NEW t \in Seq(S)
    PROVE  /\ s \o t \in Seq(S)
           /\ Len(s \o t) = Len(s) + Len(t)
           /\ \A k \in 1..Len(s) : (s \o t)[k] = s[k]
           /\ \A k \in 1..Len(t) : (s \o t)[Len(s) + k] = t[k]
OBVIOUS

-----------------------------------------------------------------------------
(* Frames and replies *)

LEMMA Lengths ==
    /\ N \in Nat /\ Cap \in Nat \ {0} /\ CopyLen \in Nat \ {0} /\ SndCap \in Nat \ {0}
    /\ \A i \in Requests : BodyLen[i] \in Nat \ {0} /\ ReplyLen[i] \in Nat \ {0} /\ BodyLen[i] < Cap
BY LengthsAssumption DEF Requests

LEMMA BodyType ==
    ASSUME NEW i \in Requests
    PROVE  /\ Body(i) \in Seq(Cells) /\ Len(Body(i)) = BodyLen[i]
           /\ \A k \in 1..BodyLen[i] : Body(i)[k] = <<i, k>>
<1>1. BodyLen[i] \in Nat /\ i \in 0..N
  BY Lengths DEF Requests
<1>2. Body(i) \in [1..BodyLen[i] -> Cells]
  BY <1>1 DEF Body, Cells
<1> QED
  BY <1>1, <1>2, FunctionIsSeq DEF Body

LEMMA FrameType ==
    ASSUME NEW i \in Requests
    PROVE  /\ Frame(i) \in Seq(Cells) /\ Len(Frame(i)) = BodyLen[i] + 1
           /\ \A k \in 1..BodyLen[i] + 1 : Frame(i)[k] = <<i, k - 1>>
<1> DEFINE head == << <<i, 0>> >>
<1>1. <<i, 0>> \in Cells
  BY Lengths DEF Cells, Requests
<1>2. head \in Seq(Cells) /\ Len(head) = 1 /\ head[1] = <<i, 0>>
  BY <1>1
<1>3. BodyLen[i] \in Nat
  BY Lengths
<1>4. /\ head \o Body(i) \in Seq(Cells) /\ Len(head \o Body(i)) = 1 + BodyLen[i]
      /\ (head \o Body(i))[1] = <<i, 0>>
      /\ \A k \in 1..BodyLen[i] : (head \o Body(i))[1 + k] = <<i, k>>
  <2> HIDE DEF head
  <2> QED
  BY <1>2, BodyType, Joined
<1>5. ASSUME NEW k \in 1..BodyLen[i] + 1 PROVE Frame(i)[k] = <<i, k - 1>>
  <2>1. CASE k = 1
    BY <1>4, <2>1 DEF Frame
  <2>2. CASE k # 1
    <3>1. k - 1 \in 1..BodyLen[i] /\ 1 + (k - 1) = k
      BY <1>3, <2>2
    <3> QED
      BY <1>4, <3>1 DEF Frame
  <2> QED
    BY <2>1, <2>2
<1>6. Frame(i) = head \o Body(i)
  BY DEF Frame
<1> HIDE DEF head
<1> QED
  BY <1>3, <1>4, <1>5, <1>6

\* How many cells a reply has.
Size(msg) ==
    IF \E i \in Requests : msg = Body(i)
    THEN ReplyLen[CHOOSE i \in Requests : msg = Body(i)]
    ELSE 1

LEMMA ReplyType ==
    ASSUME NEW j \in Nat, NEW msg
    PROVE  /\ Size(msg) \in Nat \ {0}
           /\ Reply(j, msg) \in Seq(Parts) /\ Len(Reply(j, msg)) = Size(msg)
           /\ DOMAIN Reply(j, msg) = 1..Size(msg)
           /\ \A k \in 1..Size(msg) : Reply(j, msg)[k] = <<j, k>>
<1>1. Size(msg) \in Nat \ {0}
  BY Lengths DEF Size
<1>2. Reply(j, msg) = [k \in 1..Size(msg) |-> <<j, k>>]
  BY DEF Reply, Size
<1>3. Reply(j, msg) \in [1..Size(msg) -> Parts]
  BY <1>1, <1>2 DEF Parts
<1> QED
  BY <1>1, <1>2, <1>3, FunctionIsSeq

LEMMA CopyType ==
    ASSUME NEW j \in Nat, NEW msg
    PROVE  /\ Copy(Reply(j, msg)) \in Seq(Parts) /\ Len(Copy(Reply(j, msg))) = Size(msg)
           /\ \A k \in 1..Size(msg) :
                 Copy(Reply(j, msg))[k] = IF k <= CopyLen THEN <<j, k>> ELSE Filler
<1>1. Size(msg) \in Nat \ {0}
  BY ReplyType
<1>2. Copy(Reply(j, msg)) = [k \in 1..Size(msg) |-> IF k <= CopyLen THEN <<j, k>> ELSE Filler]
  BY ReplyType DEF Copy
<1>3. Copy(Reply(j, msg)) \in [1..Size(msg) -> Parts]
  BY <1>1, <1>2 DEF Parts, Filler
<1> QED
  BY <1>1, <1>2, <1>3, FunctionIsSeq

LEMMA LenOfType ==
    ASSUME NEW cell \in Cells, env.value \in {1, Cap}
    PROVE  LenOf(cell) \in Nat
<1>1. cell[1] \in 0..N /\ cell[2] \in Nat /\ cell = <<cell[1], cell[2]>>
  BY DEF Cells
<1>2. CASE cell[2] = 0 /\ cell[1] = 0
  BY <1>1, <1>2 DEF LenOf, Filler
<1>3. CASE cell[2] = 0 /\ cell[1] # 0
  <2>1. cell[1] \in Requests
    BY <1>1, <1>3, Lengths DEF Requests
  <2>2. BodyLen[cell[1]] \in Nat
    BY <2>1, Lengths
  <2>3. LenOf(cell) \in {0, BodyLen[cell[1]]}
    BY <1>3 DEF LenOf
  <2> QED
    BY <2>2, <2>3
<1>4. CASE cell[2] # 0
  BY <1>1, <1>4, Lengths DEF LenOf
<1> QED
  BY <1>1, <1>2, <1>3, <1>4

LEMMA TakenType ==
    ASSUME NEW read \in Seq(Cells), read # <<>>, env.value \in {1, Cap}
    PROVE  /\ LenOf(read[1]) \in Nat
           /\ Taken(read) \in Seq(Cells) /\ Len(Taken(read)) = LenOf(read[1]) + 1
           /\ \A k \in 1..LenOf(read[1]) + 1 :
                 Taken(read)[k] = IF k <= Len(read) THEN read[k] ELSE Filler
<1>1. read[1] \in Cells /\ Len(read) \in Nat
  OBVIOUS
<1>2. LenOf(read[1]) \in Nat
  BY <1>1, LenOfType
<1>3. Filler \in Cells
  BY Lengths DEF Filler, Cells
<1>4. ASSUME NEW k \in 1..LenOf(read[1]) + 1 PROVE (IF k <= Len(read) THEN read[k] ELSE Filler) \in Cells
  BY <1>1, <1>2, <1>3
<1>5. Taken(read) \in [1..LenOf(read[1]) + 1 -> Cells]
  BY <1>4 DEF Taken
<1> HIDE DEF Taken
<1>6. Taken(read) \in Seq(Cells) /\ Len(Taken(read)) = LenOf(read[1]) + 1
  BY <1>2, <1>5, FunctionIsSeq
<1> QED
  BY <1>2, <1>6 DEF Taken

-----------------------------------------------------------------------------
(* Types *)

LEMMA InitTypes == Init => TypeOK
<1> SUFFICES ASSUME Init PROVE TypeOK
  OBVIOUS
<1>1. Len(sockbuf) <= SndCap
  BY Lengths DEF Init
<1>2. asked \in 0..N
  BY Lengths DEF Init
<1>3. /\ wire \in Seq(Cells) /\ inq \in Seq(Cells) /\ inbuf \in Seq(Cells)
      /\ sockbuf \in Seq(Parts) /\ outbuf \in Seq(Parts) /\ received \in Seq(Parts)
  BY DEF Init
<1>4. /\ jobs \in Seq(1..Len(handed)) /\ tasks \in Seq(Seq(Parts)) /\ answers \in Seq(Seq(Parts))
      /\ handed \in Seq(Seq(Cells))
  BY DEF Init
<1>5. /\ wpc \in [Workers -> {"idle", "send", "copy"}]
      /\ job \in [Workers -> Nat \cup {None}]
      /\ \A w \in Workers : wpc[w] = "idle" /\ job[w] = None
  BY DEF Init
<1>6. /\ env \in [patient : BOOLEAN, split : BOOLEAN, pooled : BOOLEAN, value : {1, Cap}]
      /\ edge = FALSE /\ swallowed = FALSE /\ disconn = FALSE /\ closed = FALSE
      /\ lpc = "wait" /\ fault = "none"
  BY DEF Init
<1> QED
  BY <1>1, <1>2, <1>3, <1>4, <1>5, <1>6 DEF TypeOK

LEMMA SendInLoopType ==
    ASSUME TypeOK, NEW reply \in Seq(Parts), SendInLoop(reply)
    PROVE  /\ outbuf' \in Seq(Parts) /\ edge' \in BOOLEAN /\ swallowed' \in BOOLEAN
           /\ fault' \in {"none", "overrun", "exit"}
<1>1. outbuf \in Seq(Parts) /\ edge \in BOOLEAN /\ swallowed \in BOOLEAN /\ fault \in {"none", "overrun", "exit"}
  BY DEF TypeOK
<1>2. (Room > 0) \in BOOLEAN
  OBVIOUS
<1>3. CASE disconn
  <2>1. UNCHANGED outbuf /\ UNCHANGED edge /\ UNCHANGED swallowed /\ fault' = "exit"
    BY <1>3 DEF SendInLoop
  <2> QED
    BY <1>1, <2>1
<1>4. CASE ~disconn
  <2>1. outbuf' = outbuf \o reply /\ edge' = (Room > 0) /\ swallowed' = FALSE /\ fault' = fault
    BY <1>4 DEF SendInLoop
  <2>2. outbuf \o reply \in Seq(Parts)
    BY <1>1, Joined
  <2>3. edge' \in BOOLEAN /\ swallowed' \in BOOLEAN
    BY <1>2, <2>1, Zenon
  <2> QED
    BY <1>1, <2>1, <2>2, <2>3
<1> QED
  BY <1>3, <1>4

\* What the send buffer takes of the output.
Fitting == IF Len(outbuf) < Room THEN Len(outbuf) ELSE Room

LEMMA FittingType ==
    ASSUME TypeOK
    PROVE  /\ Room \in Nat /\ Room = SndCap - Len(sockbuf)
           /\ Fitting \in Nat /\ Fitting <= Len(outbuf) /\ Fitting <= Room
BY Lengths DEF TypeOK, Room, Fitting

\* A message that pick_msg() finds, and what it leaves.
LEMMA MessageType ==
    ASSUME TypeOK, Whole
    PROVE  /\ LenOf(inbuf[1]) \in Nat /\ Len(inbuf) >= LenOf(inbuf[1]) + 1
           /\ Message \in Seq(Cells) /\ Len(Message) = LenOf(inbuf[1])
           /\ \A k \in 1..LenOf(inbuf[1]) : Message[k] = inbuf[k + 1]
           /\ Rest \in Seq(Cells) /\ Len(Rest) = Len(inbuf) - (LenOf(inbuf[1]) + 1)
           /\ \A k \in 1..Len(inbuf) - (LenOf(inbuf[1]) + 1) :
                 Rest[k] = inbuf[LenOf(inbuf[1]) + 1 + k]
<1> DEFINE len == LenOf(inbuf[1])
<1>1. inbuf \in Seq(Cells) /\ inbuf # <<>> /\ Len(inbuf) >= len + 1
  BY DEF TypeOK, Whole
<1>2. inbuf[1] \in Cells
  BY <1>1
<1>3. len \in Nat
  BY <1>2, LenOfType DEF TypeOK
<1>4. Message = SubSeq(inbuf, 2, len + 1) /\ Rest = SubSeq(inbuf, len + 2, Len(inbuf))
  BY DEF Message, Rest
<1> HIDE DEF len
<1>5. Len(inbuf) \in Nat
  BY <1>1
<1>6. /\ Message \in Seq(Cells) /\ Len(Message) = len + 1 + 1 - 2
      /\ \A k \in 1..(len + 1 + 1 - 2) : Message[k] = inbuf[2 - 1 + k]
  BY <1>1, <1>3, <1>4, <1>5, Slice, 2 <= (len + 1) + 1
<1>7. /\ Rest \in Seq(Cells) /\ Len(Rest) = Len(inbuf) + 1 - (len + 2)
      /\ \A k \in 1..(Len(inbuf) + 1 - (len + 2)) : Rest[k] = inbuf[len + 2 - 1 + k]
  BY <1>1, <1>3, <1>4, <1>5, Slice, len + 2 <= Len(inbuf) + 1
<1>8. \A k \in 1..len : Message[k] = inbuf[k + 1]
  BY <1>3, <1>6
<1>9. \A k \in 1..Len(inbuf) - (len + 1) : Rest[k] = inbuf[len + 1 + k]
  BY <1>3, <1>5, <1>7
<1> QED
  BY <1>1, <1>3, <1>5, <1>6, <1>7, <1>8, <1>9 DEF len

\* The part of the types that the history of one message concerns.
LEMMA HandedType ==
    ASSUME TypeOK, NEW msg \in Seq(Cells)
    PROVE  /\ Len(handed) \in Nat
           /\ Append(handed, msg) \in Seq(Seq(Cells))
           /\ Len(Append(handed, msg)) = Len(handed) + 1
           /\ Append(handed, msg)[Len(handed) + 1] = msg
           /\ \A j \in 1..Len(handed) : Append(handed, msg)[j] = handed[j]
BY DEF TypeOK

LEMMA NextTypes == TypeOK /\ [Next]_vars => TypeOK'
<1> SUFFICES ASSUME TypeOK, [Next]_vars PROVE TypeOK'
  OBVIOUS
<1>0. env.value \in {1, Cap}
  BY DEF TypeOK
<1>1. CASE Ask
  <2>1. asked' \in 0..N
    BY <1>1, Lengths DEF TypeOK, Ask
  <2>2. asked + 1 \in Requests
    BY <1>1, Lengths DEF TypeOK, Ask, Requests
  <2>3. wire' \in Seq(Cells)
    BY <1>1, <2>2, FrameType, Joined DEF TypeOK, Ask
  <2> QED
    BY <1>1, <2>1, <2>3 DEF TypeOK, Ask, out, pool
<1>2. CASE Deliver
  <2>1. PICK n \in 1..Len(wire) : inq' = inq \o SubSeq(wire, 1, n) /\ wire' = SubSeq(wire, n + 1, Len(wire))
    BY <1>2 DEF Deliver, Arrivals
  <2>2. wire \in Seq(Cells) /\ inq \in Seq(Cells) /\ Len(wire) \in Nat
    BY DEF TypeOK
  <2>3. SubSeq(wire, 1, n) \in Seq(Cells) /\ SubSeq(wire, n + 1, Len(wire)) \in Seq(Cells)
    BY <2>2, Slice
  <2>4. inq' \in Seq(Cells) /\ wire' \in Seq(Cells)
    BY <2>1, <2>2, <2>3, Joined
  <2> QED
    BY <1>2, <2>4 DEF TypeOK, Deliver, client, out, pool
<1>3. CASE Recv
  <2>1. PICK n \in 1..Len(sockbuf) : /\ answers' = Append(answers, SubSeq(sockbuf, 1, n))
                                     /\ received' = received \o SubSeq(sockbuf, 1, n)
                                     /\ sockbuf' = SubSeq(sockbuf, n + 1, Len(sockbuf))
    BY <1>3 DEF Recv
  <2>2. sockbuf \in Seq(Parts) /\ Len(sockbuf) \in Nat /\ Len(sockbuf) <= SndCap
    BY DEF TypeOK
  <2>3. SubSeq(sockbuf, 1, n) \in Seq(Parts)
    BY <2>2, Slice
  <2>4. sockbuf' \in Seq(Parts) /\ Len(sockbuf') = Len(sockbuf) + 1 - (n + 1)
    BY <2>1, <2>2, Slice
  <2>5. Len(sockbuf') <= SndCap
    BY <2>2, <2>4, Lengths
  <2>6. answers' \in Seq(Seq(Parts)) /\ received' \in Seq(Parts)
    BY <2>1, <2>3, Joined DEF TypeOK
  <2>7. edge' \in BOOLEAN
    BY <1>3, Zenon DEF Recv
  <2> QED
    BY <1>3, <2>4, <2>5, <2>6, <2>7 DEF TypeOK, Recv, net, pool
<1>4. CASE Close
  BY <1>4 DEF TypeOK, Close, net, out, pool
<1>5. CASE OnMsg
  <2>1. edge' \in BOOLEAN /\ swallowed' \in BOOLEAN
    BY <1>5, Zenon DEF OnMsg
  <2> QED
    BY <1>5, <2>1 DEF TypeOK, OnMsg, client, net, pool
<1>6. CASE Read
  <2> DEFINE n == IF Len(inq) < Cap THEN Len(inq) ELSE Cap
             read == SubSeq(inq, 1, n)
  <2>1. inq \in Seq(Cells) /\ inbuf \in Seq(Cells) /\ Len(inq) \in Nat /\ inq # <<>>
    BY <1>6 DEF TypeOK, Read
  <2>2. n \in Nat /\ n <= Len(inq) /\ n > 0
    BY <2>1, Lengths
  <2>3. /\ inq' = SubSeq(inq, n + 1, Len(inq))
        /\ inbuf' \in {inbuf, inbuf \o Taken(read)} /\ fault' \in {fault, "overrun"}
    BY <1>6 DEF Read
  <2> HIDE DEF n
  <2>4. read \in Seq(Cells) /\ Len(read) = n + 1 - 1
    BY <2>1, <2>2, Slice
  <2>5. read # <<>>
    BY <2>2, <2>4
  <2> HIDE DEF read
  <2>6. inbuf' \in Seq(Cells)
    <3>1. Taken(read) \in Seq(Cells)
      BY <1>0, <2>4, <2>5, TakenType
    <3>2. inbuf \o Taken(read) \in Seq(Cells)
      BY <2>1, <3>1, Joined
    <3> QED
      BY <2>1, <2>3, <3>2
  <2>7. inq' \in Seq(Cells)
    BY <2>1, <2>2, <2>3, Slice
  <2> QED
    BY <1>6, <2>3, <2>6, <2>7 DEF TypeOK, Read, client, out, pool
<1>7. CASE ReadAgain
  BY <1>7 DEF TypeOK, ReadAgain, client, net, out, pool
<1>8. CASE ReadEnd
  BY <1>8 DEF TypeOK, ReadEnd, client, net, pool
<1>9. CASE PickMsg
  <2>1. Whole /\ inbuf' = Rest /\ handed' = Append(handed, Message)
    BY <1>9 DEF PickMsg
  <2>2. inbuf' \in Seq(Cells) /\ Message \in Seq(Cells)
    BY <2>1, MessageType
  <2>3. handed' \in Seq(Seq(Cells)) /\ Len(handed') = Len(handed) + 1 /\ Len(handed) \in Nat
    BY <2>1, <2>2, HandedType
  <2>4. 1..Len(handed) \subseteq 1..Len(handed') /\ Len(handed) + 1 \in 1..Len(handed')
    BY <2>3
  <2>5. \A w \in Workers : job'[w] \in IF wpc'[w] = "idle" THEN {None} ELSE 1..Len(handed')
    BY <1>9, <2>4 DEF TypeOK, PickMsg
  <2>6. jobs \in Seq(1..Len(handed'))
    BY <2>4 DEF TypeOK
  <2>7. /\ jobs' \in Seq(1..Len(handed'))
        /\ outbuf' \in Seq(Parts) /\ edge' \in BOOLEAN /\ swallowed' \in BOOLEAN
        /\ fault' \in {"none", "overrun", "exit"}
    <3>1. CASE env.pooled
      <4>1. jobs' = Append(jobs, Len(handed) + 1)
        BY <1>9, <3>1 DEF PickMsg
      <4>2. Append(jobs, Len(handed) + 1) \in Seq(1..Len(handed'))
        BY <2>4, <2>6
      <4>3. UNCHANGED outbuf /\ UNCHANGED edge /\ UNCHANGED swallowed /\ UNCHANGED fault
        BY <1>9, <3>1 DEF PickMsg
      <4> QED
        BY <4>1, <4>2, <4>3 DEF TypeOK
    <3>2. CASE ~env.pooled
      <4>1. jobs' = jobs /\ SendInLoop(Reply(Len(handed) + 1, Message))
        BY <1>9, <3>2 DEF PickMsg
      <4>2. Reply(Len(handed) + 1, Message) \in Seq(Parts)
        BY <2>3, ReplyType
      <4> QED
        BY <2>6, <4>1, <4>2, SendInLoopType
    <3> QED
      BY <3>1, <3>2
  <2> QED
    BY <1>9, <2>2, <2>3, <2>5, <2>7 DEF TypeOK, PickMsg, client, net
<1>10. CASE EndPick
  BY <1>10 DEF TypeOK, EndPick, client, net, out, pool
<1>11. CASE RunTask
  <2>1. Head(tasks) \in Seq(Parts) /\ Tail(tasks) \in Seq(Seq(Parts))
    BY <1>11 DEF TypeOK, RunTask
  <2>2. /\ outbuf' \in Seq(Parts) /\ edge' \in BOOLEAN /\ swallowed' \in BOOLEAN
        /\ fault' \in {"none", "overrun", "exit"}
    BY <1>11, <2>1, SendInLoopType DEF RunTask
  <2> QED
    BY <1>11, <2>1, <2>2 DEF TypeOK, RunTask, client, net
<1>12. CASE WriteCb
  <2>1. outbuf \in Seq(Parts) /\ sockbuf \in Seq(Parts) /\ Len(sockbuf) \in Nat /\ Len(outbuf) \in Nat
    BY DEF TypeOK
  <2>2. sockbuf' = sockbuf \o SubSeq(outbuf, 1, Fitting) /\ outbuf' = <<>>
    BY <1>12 DEF WriteCb, Send, Fitting
  <2>3. SubSeq(outbuf, 1, Fitting) \in Seq(Parts) /\ Len(SubSeq(outbuf, 1, Fitting)) = Fitting + 1 - 1
    BY <2>1, FittingType, Slice
  <2>4. sockbuf' \in Seq(Parts) /\ Len(sockbuf') = Len(sockbuf) + (Fitting + 1 - 1)
    BY <2>1, <2>2, <2>3, Joined
  <2>5. Len(sockbuf') <= SndCap
    BY <2>1, <2>4, FittingType, Lengths
  <2>6. outbuf' \in Seq(Parts)
    BY <2>2
  <2> QED
    BY <1>12, <2>4, <2>5, <2>6 DEF TypeOK, WriteCb, client, net, pool
<1>13. ASSUME NEW w \in Workers, TakeJob(w) PROVE TypeOK'
  <2>1. Head(jobs) \in 1..Len(handed) /\ Tail(jobs) \in Seq(1..Len(handed))
    BY <1>13 DEF TypeOK, TakeJob
  <2>4. Head(jobs) \in Nat
    BY <2>1
  <2>2. wpc' \in [Workers -> {"idle", "send", "copy"}] /\ job' \in [Workers -> Nat \cup {None}]
    BY <1>13, <2>4 DEF TypeOK, TakeJob
  <2>3. \A v \in Workers : job'[v] \in IF wpc'[v] = "idle" THEN {None} ELSE 1..Len(handed')
    BY <1>13, <2>1 DEF TypeOK, TakeJob
  <2> QED
    BY <1>13, <2>1, <2>2, <2>3 DEF TypeOK, TakeJob, client, net, out
<1>14. ASSUME NEW w \in Workers, CheckConn(w) PROVE TypeOK'
  <2>2. wpc' \in [Workers -> {"idle", "send", "copy"}] /\ job' \in [Workers -> Nat \cup {None}]
    BY <1>14 DEF TypeOK, CheckConn
  <2>3. \A v \in Workers : job'[v] \in IF wpc'[v] = "idle" THEN {None} ELSE 1..Len(handed')
    BY <1>14 DEF TypeOK, CheckConn, WorkerAt
  <2> QED
    BY <1>14, <2>2, <2>3 DEF TypeOK, CheckConn, client, net, out
<1>15. ASSUME NEW w \in Workers, Post(w) PROVE TypeOK'
  <2>1. job[w] \in Nat
    BY <1>15 DEF TypeOK, Post, WorkerAt
  <2>2. wpc' \in [Workers -> {"idle", "send", "copy"}] /\ job' \in [Workers -> Nat \cup {None}]
    BY <1>15 DEF TypeOK, Post
  <2>3. \A v \in Workers : job'[v] \in IF wpc'[v] = "idle" THEN {None} ELSE 1..Len(handed')
    BY <1>15 DEF TypeOK, Post
  <2>4. Copy(Reply(job[w], handed[job[w]])) \in Seq(Parts)
    BY <2>1, CopyType
  <2>5. tasks' \in Seq(Seq(Parts))
    BY <1>15, <2>4 DEF TypeOK, Post
  <2> QED
    BY <1>15, <2>2, <2>3, <2>5 DEF TypeOK, Post, client, net, out
<1>16. CASE UNCHANGED vars
  BY <1>16 DEF TypeOK, vars, client, net, out, pool
<1> QED
  BY <1>1, <1>2, <1>3, <1>4, <1>5, <1>6, <1>7, <1>8, <1>9, <1>10, <1>11, <1>12, <1>13, <1>14, <1>15, <1>16
  DEF Next, Loop, Worker

\* Every variable has its type whatever is sent, cut and closed when: a worker
\* has a message in hand exactly while it works, the send buffer is never
\* overfilled, and what is handed up, queued and answered is made of cells.
THEOREM TypeCorrect == Spec => []TypeOK
<1>1. Init => TypeOK
  BY InitTypes
<1>2. TypeOK /\ [Next]_vars => TypeOK'
  BY NextTypes
<1> QED
  BY <1>1, <1>2, PTL DEF Spec

-----------------------------------------------------------------------------
(* The order of the requests *)

\* The order in which the client writes its cells.
Before(a, b) == a[1] < b[1] \/ (a[1] = b[1] /\ a[2] < b[2])

Ordered(s) ==
    \A p, q \in 1..Len(s) : p < q /\ s[p] # Filler /\ s[q] # Filler => Before(s[p], s[q])

Precedes(s, t) ==
    \A p \in 1..Len(s), q \in 1..Len(t) : s[p] # Filler /\ t[q] # Filler => Before(s[p], t[q])

\* The cells of s are some of t.
Within(s, t) == \A p \in 1..Len(s) : s[p] = Filler \/ \E q \in 1..Len(t) : s[p] = t[q]

\* s is of requests that were sent, and of none of those still under way.
Asked(s) == \A p \in 1..Len(s) : s[p][1] <= asked
Arrived(s) == Asked(s) /\ Precedes(s, inq) /\ Precedes(s, wire)

\* Whatever was lost and garbled, what is left lies in the order of the stream.
OrderInv ==
    /\ Ordered(wire) /\ Ordered(inq) /\ Ordered(inbuf)
    /\ Asked(wire) /\ Asked(inq) /\ Precedes(inq, wire)
    /\ Arrived(inbuf)
    /\ \A p \in 1..Len(handed) : Arrived(handed[p]) /\ Precedes(handed[p], inbuf)
    /\ \A p, q \in 1..Len(handed) : p < q => Precedes(handed[p], handed[q])

LEMMA PrecedesWithin ==
    ASSUME NEW s, NEW t, NEW u, NEW v, Precedes(s, t), Within(u, s), Within(v, t)
    PROVE  Precedes(u, v)
<1> SUFFICES ASSUME NEW p \in 1..Len(u), NEW q \in 1..Len(v), u[p] # Filler, v[q] # Filler
             PROVE  Before(u[p], v[q])
  BY DEF Precedes
<1>1. PICK k \in 1..Len(s) : u[p] = s[k]
  BY DEF Within
<1>2. PICK l \in 1..Len(t) : v[q] = t[l]
  BY DEF Within
<1> QED
  BY <1>1, <1>2 DEF Precedes

LEMMA WithinItself == \A s : Within(s, s)
BY DEF Within

LEMMA AskedWithin ==
    ASSUME NEW s, NEW t, Asked(t), Within(s, t), asked \in Nat
    PROVE  Asked(s)
<1> SUFFICES ASSUME NEW p \in 1..Len(s) PROVE s[p][1] <= asked
  BY DEF Asked
<1>1. CASE s[p] = Filler
  BY <1>1 DEF Filler
<1>2. CASE s[p] # Filler
  <2>1. PICK q \in 1..Len(t) : s[p] = t[q]
    BY <1>2 DEF Within
  <2> QED
    BY <2>1 DEF Asked
<1> QED
  BY <1>1, <1>2

\* Two parts of an ordered sequence.
LEMMA OrderedSlices ==
    ASSUME NEW s \in Seq(Cells), Ordered(s), NEW n \in 0..Len(s)
    PROVE  /\ Ordered(SubSeq(s, 1, n)) /\ Ordered(SubSeq(s, n + 1, Len(s)))
           /\ Within(SubSeq(s, 1, n), s) /\ Within(SubSeq(s, n + 1, Len(s)), s)
           /\ Precedes(SubSeq(s, 1, n), SubSeq(s, n + 1, Len(s)))
<1> DEFINE a == SubSeq(s, 1, n)
           b == SubSeq(s, n + 1, Len(s))
<1>1. Len(s) \in Nat /\ n \in Nat /\ n <= Len(s)
  OBVIOUS
<1>2. Len(a) = n + 1 - 1 /\ \A k \in 1..(n + 1 - 1) : a[k] = s[1 - 1 + k]
  BY <1>1, Slice
<1>3. /\ Len(b) = Len(s) + 1 - (n + 1)
      /\ \A k \in 1..(Len(s) + 1 - (n + 1)) : b[k] = s[n + 1 - 1 + k]
  BY <1>1, Slice
<1> HIDE DEF a, b
<1>4. Len(a) = n /\ \A k \in 1..n : k \in 1..Len(s) /\ a[k] = s[k]
  BY <1>1, <1>2
<1>5. Len(b) = Len(s) - n /\ \A k \in 1..(Len(s) - n) : n + k \in 1..Len(s) /\ b[k] = s[n + k]
  BY <1>1, <1>3
<1>6. Ordered(a) /\ Within(a, s)
  BY <1>1, <1>4 DEF Ordered, Within
<1>7. Within(b, s)
  BY <1>5 DEF Within
<1>8. Ordered(b)
  <2> SUFFICES ASSUME NEW p \in 1..Len(b), NEW q \in 1..Len(b), p < q, b[p] # Filler, b[q] # Filler
               PROVE  Before(b[p], b[q])
    BY DEF Ordered
  <2>1. n + p < n + q
    BY <1>1
  <2> QED
    BY <1>5, <2>1 DEF Ordered
<1>9. Precedes(a, b)
  <2> SUFFICES ASSUME NEW p \in 1..Len(a), NEW q \in 1..Len(b), a[p] # Filler, b[q] # Filler
               PROVE  Before(a[p], b[q])
    BY DEF Precedes
  <2>1. p < n + q
    BY <1>1, <1>4, <1>5
  <2> QED
    BY <1>4, <1>5, <2>1 DEF Ordered
<1> QED
  BY <1>6, <1>7, <1>8, <1>9 DEF a, b

LEMMA OrderedJoin ==
    ASSUME NEW s \in Seq(Cells), NEW t \in Seq(Cells)
    PROVE  /\ Ordered(s) /\ Ordered(t) /\ Precedes(s, t) => Ordered(s \o t)
           /\ \A u : Precedes(s, u) /\ Precedes(t, u) => Precedes(s \o t, u)
           /\ \A u : Precedes(u, s) /\ Precedes(u, t) => Precedes(u, s \o t)
           /\ Asked(s) /\ Asked(t) => Asked(s \o t)
<1> DEFINE st == s \o t
<1>1. Len(s) \in Nat /\ Len(t) \in Nat
  OBVIOUS
<1>2. Len(st) = Len(s) + Len(t) /\ \A k \in 1..Len(s) : st[k] = s[k]
  BY Joined
<1>3. \A k \in 1..Len(t) : st[Len(s) + k] = t[k]
  BY Joined
<1> HIDE DEF st
<1>4. ASSUME NEW k \in 1..Len(st), ~(k <= Len(s))
      PROVE  k - Len(s) \in 1..Len(t) /\ st[k] = t[k - Len(s)]
  BY <1>1, <1>2, <1>3, <1>4, Len(s) + (k - Len(s)) = k
<1>5. ASSUME NEW k \in 1..Len(st), k <= Len(s)
      PROVE  k \in 1..Len(s) /\ st[k] = s[k]
  BY <1>1, <1>2, <1>5
<1>6. ASSUME Ordered(s), Ordered(t), Precedes(s, t) PROVE Ordered(st)
  <2> SUFFICES ASSUME NEW p \in 1..Len(st), NEW q \in 1..Len(st), p < q, st[p] # Filler, st[q] # Filler
               PROVE  Before(st[p], st[q])
    BY DEF Ordered
  <2>1. CASE q <= Len(s)
    BY <1>1, <1>5, <1>6, <2>1 DEF Ordered
  <2>2. CASE p <= Len(s) /\ ~(q <= Len(s))
    BY <1>4, <1>5, <1>6, <2>2 DEF Precedes
  <2>3. CASE ~(p <= Len(s))
    <3>1. ~(q <= Len(s)) /\ p - Len(s) < q - Len(s)
      BY <1>1, <2>3
    <3> QED
      BY <1>4, <1>6, <2>3, <3>1 DEF Ordered
  <2> QED
    BY <1>1, <2>1, <2>2, <2>3
<1>7. ASSUME NEW u, Precedes(s, u), Precedes(t, u) PROVE Precedes(st, u)
  <2> SUFFICES ASSUME NEW p \in 1..Len(st), NEW q \in 1..Len(u), st[p] # Filler, u[q] # Filler
               PROVE  Before(st[p], u[q])
    BY DEF Precedes
  <2> QED
    BY <1>4, <1>5, <1>7 DEF Precedes
<1>8. ASSUME NEW u, Precedes(u, s), Precedes(u, t) PROVE Precedes(u, st)
  <2> SUFFICES ASSUME NEW p \in 1..Len(u), NEW q \in 1..Len(st), u[p] # Filler, st[q] # Filler
               PROVE  Before(u[p], st[q])
    BY DEF Precedes
  <2> QED
    BY <1>4, <1>5, <1>8 DEF Precedes
<1>9. ASSUME Asked(s), Asked(t) PROVE Asked(st)
  BY <1>4, <1>5, <1>9 DEF Asked
<1> QED
  BY <1>6, <1>7, <1>8, <1>9 DEF st

LEMMA TakenOrder ==
    ASSUME NEW read \in Seq(Cells), read # <<>>, env.value \in {1, Cap}, Ordered(read)
    PROVE  Ordered(Taken(read)) /\ Within(Taken(read), read)
<1>1. /\ LenOf(read[1]) \in Nat /\ Len(Taken(read)) = LenOf(read[1]) + 1
      /\ \A k \in 1..LenOf(read[1]) + 1 : Taken(read)[k] = IF k <= Len(read) THEN read[k] ELSE Filler
  BY TakenType
<1>2. ASSUME NEW k \in 1..Len(Taken(read)), Taken(read)[k] # Filler
      PROVE  k \in 1..Len(read) /\ Taken(read)[k] = read[k]
  BY <1>1, <1>2
<1>3. Within(Taken(read), read)
  BY <1>2 DEF Within
<1>4. Ordered(Taken(read))
  BY <1>2 DEF Ordered
<1> QED
  BY <1>3, <1>4

\* A frame is in order, and behind every cell sent before it.
LEMMA FrameOrder ==
    ASSUME NEW i \in Requests, asked + 1 = i, asked \in Nat
    PROVE  /\ Ordered(Frame(i))
           /\ \A p \in 1..Len(Frame(i)) : Frame(i)[p][1] = i
           /\ \A s \in Seq(Cells) : Asked(s) => Precedes(s, Frame(i))
<1>1. BodyLen[i] \in Nat /\ Len(Frame(i)) = BodyLen[i] + 1
  BY FrameType, Lengths
<1>2. ASSUME NEW p \in 1..Len(Frame(i)) PROVE Frame(i)[p] = <<i, p - 1>>
  BY <1>1, FrameType
<1>3. ASSUME NEW p \in 1..Len(Frame(i)) PROVE Frame(i)[p][1] = i /\ Frame(i)[p][2] = p - 1
  BY <1>2
<1>4. Ordered(Frame(i))
  BY <1>1, <1>3 DEF Ordered, Before
<1>5. ASSUME NEW s \in Seq(Cells), Asked(s) PROVE Precedes(s, Frame(i))
  <2> SUFFICES ASSUME NEW p \in 1..Len(s), NEW q \in 1..Len(Frame(i)) PROVE s[p][1] < Frame(i)[q][1]
    BY DEF Precedes, Before
  <2>1. s[p][1] <= asked /\ Frame(i)[q][1] = asked + 1
    BY <1>3, <1>5 DEF Asked
  <2>2. s[p] \in Cells
    OBVIOUS
  <2>3. s[p][1] \in 0..N
    BY <2>2 DEF Cells
  <2> QED
    BY <2>1, <2>3, Lengths
<1> QED
  BY <1>3, <1>4, <1>5

LEMMA OrderInit == Init => OrderInv
BY DEF Init, OrderInv, Ordered, Asked, Arrived, Precedes

LEMMA OrderNext == TypeOK /\ OrderInv /\ [Next]_vars => OrderInv'
<1> SUFFICES ASSUME TypeOK, OrderInv, [Next]_vars PROVE OrderInv'
  OBVIOUS
<1>0. /\ env.value \in {1, Cap} /\ asked \in Nat
      /\ wire \in Seq(Cells) /\ inq \in Seq(Cells) /\ inbuf \in Seq(Cells)
      /\ handed \in Seq(Seq(Cells)) /\ Len(handed) \in Nat
  BY DEF TypeOK
<1>1. CASE UNCHANGED <<asked, wire, inq, inbuf, handed>>
  BY <1>1 DEF OrderInv, Ordered, Asked, Arrived, Precedes
<1>2. CASE Ask
  <2>1. asked + 1 \in Requests /\ asked' = asked + 1
    BY <1>2, Lengths DEF TypeOK, Ask, Requests
  <2> DEFINE frame == Frame(asked + 1)
  <2>2. wire' = wire \o frame /\ UNCHANGED inq /\ UNCHANGED inbuf /\ UNCHANGED handed
    BY <1>2 DEF Ask
  <2>3. /\ Ordered(frame) /\ frame \in Seq(Cells)
        /\ \A p \in 1..Len(frame) : frame[p][1] = asked + 1
        /\ \A s \in Seq(Cells) : Asked(s) => Precedes(s, frame)
    BY <1>0, <2>1, FrameOrder, FrameType
  <2> HIDE DEF frame
  <2>4. ASSUME NEW s \in Seq(Cells), Asked(s)
        PROVE  \A p \in 1..Len(s) : s[p][1] <= asked'
    <3> SUFFICES ASSUME NEW p \in 1..Len(s) PROVE s[p][1] <= asked'
      OBVIOUS
    <3>1. s[p] \in Cells
      OBVIOUS
    <3>2. s[p][1] \in 0..N /\ s[p][1] <= asked
      BY <2>4, <3>1 DEF Cells, Asked
    <3> QED
      BY <1>0, <2>1, <3>2, Lengths
  <2>5. Ordered(wire')
    BY <1>0, <2>2, <2>3, OrderedJoin DEF OrderInv
  <2>6. ASSUME NEW s \in Seq(Cells), Asked(s), Precedes(s, wire) PROVE Precedes(s, wire')
    BY <1>0, <2>2, <2>3, <2>6, OrderedJoin
  <2>7. Asked(wire)'
    <3>1. \A p \in 1..Len(frame) : frame[p][1] <= asked'
      BY <1>0, <2>1, <2>3
    <3>2. \A p \in 1..Len(wire) : wire[p][1] <= asked'
      BY <1>0, <2>4 DEF OrderInv
    <3>3. /\ Len(wire') = Len(wire) + Len(frame) /\ Len(wire) \in Nat /\ Len(frame) \in Nat
          /\ \A k \in 1..Len(wire) : wire'[k] = wire[k]
          /\ \A k \in 1..Len(frame) : wire'[Len(wire) + k] = frame[k]
      BY <1>0, <2>2, <2>3, Joined
    <3>4. ASSUME NEW p \in 1..Len(wire') PROVE wire'[p][1] <= asked'
      <4>1. CASE p <= Len(wire)
        BY <3>2, <3>3, <4>1
      <4>2. CASE ~(p <= Len(wire))
        <5>1. p - Len(wire) \in 1..Len(frame) /\ p = Len(wire) + (p - Len(wire))
          BY <3>3, <4>2
        <5> QED
          BY <3>1, <3>3, <5>1
      <4> QED
        BY <4>1, <4>2
    <3> QED
      BY <3>4 DEF Asked
  <2>8. \A s \in Seq(Cells) : Arrived(s) =>
           /\ \A p \in 1..Len(s) : s[p][1] <= asked'
           /\ Precedes(s, inq') /\ Precedes(s, wire')
    BY <2>2, <2>4, <2>6 DEF Arrived
  <2>9. Asked(inq)' /\ Precedes(inq', wire')
    BY <1>0, <2>2, <2>4, <2>6 DEF OrderInv, Asked
  <2>10. Arrived(inbuf)' /\ \A p \in 1..Len(handed') : Arrived(handed[p])'
    <3>1. Arrived(inbuf) /\ \A p \in 1..Len(handed) : handed[p] \in Seq(Cells) /\ Arrived(handed[p])
      BY <1>0 DEF OrderInv
    <3>2. Arrived(inbuf)'
      BY <1>0, <2>2, <2>8, <3>1 DEF Arrived, Asked
    <3>3. \A p \in 1..Len(handed) : Arrived(handed[p])'
      BY <2>2, <2>8, <3>1 DEF Arrived, Asked
    <3> QED
      BY <2>2, <3>2, <3>3
  <2> QED
    BY <2>2, <2>5, <2>7, <2>9, <2>10 DEF OrderInv
<1>3. CASE Deliver
  <2>1. PICK n \in 1..Len(wire) : inq' = inq \o SubSeq(wire, 1, n) /\ wire' = SubSeq(wire, n + 1, Len(wire))
    BY <1>3 DEF Deliver, Arrivals
  <2>2. UNCHANGED asked /\ UNCHANGED inbuf /\ UNCHANGED handed
    BY <1>3 DEF Deliver, client
  <2> DEFINE a == SubSeq(wire, 1, n)
             b == SubSeq(wire, n + 1, Len(wire))
  <2>3. n \in 0..Len(wire) /\ n \in Nat \ {0} /\ n <= Len(wire) /\ Len(wire) \in Nat
    BY <1>0
  <2>4. Ordered(a) /\ Ordered(b) /\ Within(a, wire) /\ Within(b, wire) /\ Precedes(a, b)
    BY <1>0, <2>3, OrderedSlices DEF OrderInv
  <2>5. a \in Seq(Cells) /\ b \in Seq(Cells)
    BY <1>0, <2>3, Slice
  <2>6. inq' = inq \o a /\ wire' = b
    BY <2>1
  <2> HIDE DEF a, b
  <2>7. Asked(a) /\ Asked(b)
    BY <1>0, <2>4, AskedWithin DEF OrderInv
  <2>8. ASSUME NEW s \in Seq(Cells), Precedes(s, wire) PROVE Precedes(s, a) /\ Precedes(s, b)
    BY <2>4, <2>8, PrecedesWithin, WithinItself
  <2>9. ASSUME NEW s \in Seq(Cells), Precedes(s, inq), Precedes(s, wire)
        PROVE  Precedes(s, inq') /\ Precedes(s, wire')
    BY <1>0, <2>5, <2>6, <2>8, <2>9, OrderedJoin
  <2>10. Ordered(inq') /\ Ordered(wire') /\ Precedes(inq', wire')
    BY <1>0, <2>4, <2>5, <2>6, <2>8, OrderedJoin DEF OrderInv
  <2>11. Asked(inq') /\ Asked(wire')
    BY <1>0, <2>5, <2>6, <2>7, OrderedJoin DEF OrderInv
  <2>12. Asked(inq)' /\ Asked(wire)'
    BY <2>2, <2>11 DEF Asked
  <2>13. \A s \in Seq(Cells) : Arrived(s) => Asked(s) /\ Precedes(s, inq') /\ Precedes(s, wire')
    BY <2>9 DEF Arrived
  <2>14. Arrived(inbuf)' /\ \A p \in 1..Len(handed') : Arrived(handed[p])'
    <3>1. Arrived(inbuf) /\ \A p \in 1..Len(handed) : handed[p] \in Seq(Cells) /\ Arrived(handed[p])
      BY <1>0 DEF OrderInv
    <3>2. Arrived(inbuf)'
      BY <1>0, <2>2, <2>13, <3>1 DEF Arrived, Asked
    <3>3. \A p \in 1..Len(handed) : Arrived(handed[p])'
      BY <2>2, <2>13, <3>1 DEF Arrived, Asked
    <3> QED
      BY <2>2, <3>2, <3>3
  <2> QED
    BY <2>2, <2>10, <2>12, <2>14 DEF OrderInv
<1>4. CASE Read
  <2> DEFINE n == IF Len(inq) < Cap THEN Len(inq) ELSE Cap
             read == SubSeq(inq, 1, n)
             b == SubSeq(inq, n + 1, Len(inq))
  <2>1. Len(inq) \in Nat /\ inq # <<>>
    BY <1>0, <1>4 DEF Read
  <2>2. n \in Nat \ {0} /\ n <= Len(inq) /\ n \in 0..Len(inq)
    BY <1>0, <2>1, Lengths
  <2>3. /\ inq' = b /\ inbuf' \in {inbuf, inbuf \o Taken(read)}
        /\ UNCHANGED asked /\ UNCHANGED wire /\ UNCHANGED handed
    BY <1>4 DEF Read, client
  <2> HIDE DEF n
  <2>4. Ordered(read) /\ Ordered(b) /\ Within(read, inq) /\ Within(b, inq) /\ Precedes(read, b)
    BY <1>0, <2>2, OrderedSlices DEF OrderInv
  <2>5. read \in Seq(Cells) /\ b \in Seq(Cells) /\ Len(read) = n + 1 - 1
    BY <1>0, <2>2, Slice
  <2> HIDE DEF read, b
  <2>6. read # <<>>
    BY <2>2, <2>5
  <2> DEFINE new == Taken(read)
  <2>7. Ordered(new) /\ Within(new, read) /\ new \in Seq(Cells)
    BY <1>0, <2>4, <2>5, <2>6, TakenOrder, TakenType
  <2> HIDE DEF new
  <2>8. Asked(new) /\ Asked(b)
    BY <1>0, <2>4, <2>7, AskedWithin DEF OrderInv
  <2>9. Precedes(new, b)
    BY <2>4, <2>7, PrecedesWithin, WithinItself
  <2>10. Precedes(b, wire) /\ Precedes(new, wire)
    <3>1. Precedes(b, wire) /\ Precedes(read, wire)
      BY <2>4, PrecedesWithin, WithinItself DEF OrderInv
    <3> QED
      BY <2>7, <3>1, PrecedesWithin, WithinItself
  <2>11. ASSUME NEW s \in Seq(Cells), Precedes(s, inq) PROVE Precedes(s, b) /\ Precedes(s, new)
    <3>1. Precedes(s, b) /\ Precedes(s, read)
      BY <2>4, <2>11, PrecedesWithin, WithinItself
    <3> QED
      BY <2>7, <3>1, PrecedesWithin, WithinItself
  <2> DEFINE grown == inbuf \o new
  <2>12. /\ Precedes(inbuf, b) /\ Precedes(inbuf, new) /\ Precedes(inbuf, wire)
         /\ Ordered(inbuf) /\ Asked(inbuf)
    BY <1>0, <2>11 DEF OrderInv, Arrived
  <2>13. Ordered(grown) /\ Asked(grown) /\ Precedes(grown, b) /\ Precedes(grown, wire)
    BY <1>0, <2>7, <2>8, <2>9, <2>10, <2>12, OrderedJoin
  <2>14. ASSUME NEW p \in 1..Len(handed)
         PROVE  /\ handed[p] \in Seq(Cells)
                /\ Precedes(handed[p], inbuf) /\ Precedes(handed[p], grown)
                /\ Precedes(handed[p], b) /\ Precedes(handed[p], wire) /\ Asked(handed[p])
    <3>1. /\ handed[p] \in Seq(Cells) /\ Precedes(handed[p], inbuf) /\ Asked(handed[p])
          /\ Precedes(handed[p], wire) /\ Precedes(handed[p], inq)
      BY <1>0 DEF OrderInv, Arrived
    <3>2. Precedes(handed[p], b) /\ Precedes(handed[p], new)
      BY <2>11, <3>1
    <3>3. Precedes(handed[p], grown)
      BY <1>0, <2>7, <3>1, <3>2, OrderedJoin
    <3> QED
      BY <3>1, <3>2, <3>3
  <2> HIDE DEF grown
  <2>15. inbuf' = inbuf \/ inbuf' = grown
    BY <2>3 DEF grown, new
  <2>16. Ordered(inbuf') /\ Arrived(inbuf)'
    BY <2>3, <2>12, <2>13, <2>15 DEF Arrived, Asked
  <2>17. \A p \in 1..Len(handed') : Arrived(handed[p])' /\ Precedes(handed'[p], inbuf')
    BY <2>3, <2>14, <2>15 DEF Arrived, Asked
  <2>18. Ordered(inq') /\ Asked(inq)' /\ Precedes(inq', wire') /\ Ordered(wire') /\ Asked(wire)'
    BY <2>3, <2>4, <2>8, <2>10 DEF OrderInv, Asked
  <2>19. \A p, q \in 1..Len(handed') : p < q => Precedes(handed'[p], handed'[q])
    BY <2>3 DEF OrderInv
  <2> QED
    BY <2>16, <2>17, <2>18, <2>19 DEF OrderInv
<1>5. CASE PickMsg
  <2> DEFINE len == LenOf(inbuf[1])
             a == SubSeq(inbuf, 1, len + 1)
  <2>1. Whole /\ inbuf' = Rest /\ handed' = Append(handed, Message) /\ UNCHANGED asked /\ UNCHANGED inq /\ UNCHANGED wire
    BY <1>5 DEF PickMsg, client, net
  <2>2. /\ len \in Nat /\ Len(inbuf) >= len + 1
        /\ Message \in Seq(Cells) /\ Len(Message) = len
        /\ \A k \in 1..len : Message[k] = inbuf[k + 1]
    BY <2>1, MessageType
  <2>3. Rest = SubSeq(inbuf, len + 1 + 1, Len(inbuf)) /\ Rest \in Seq(Cells)
    <3>1. len + 2 = len + 1 + 1
      BY <2>2
    <3>2. Rest = SubSeq(inbuf, len + 2, Len(inbuf)) /\ Rest \in Seq(Cells)
      BY <2>1, MessageType DEF Rest
    <3> QED
      BY <3>1, <3>2
  <2> HIDE DEF len
  <2>4. len + 1 \in 0..Len(inbuf) /\ Len(inbuf) \in Nat
    BY <1>0, <2>2
  <2>5. Ordered(Rest) /\ Within(Rest, inbuf) /\ Precedes(a, Rest) /\ Within(a, inbuf)
    BY <1>0, <2>3, <2>4, OrderedSlices DEF OrderInv
  <2>6. Len(a) = len + 1 + 1 - 1 /\ \A k \in 1..(len + 1 + 1 - 1) : a[k] = inbuf[1 - 1 + k]
    BY <1>0, <2>2, <2>4, Slice
  <2> HIDE DEF a
  <2>7. Within(Message, a)
    <3>1. ASSUME NEW k \in 1..Len(Message) PROVE k + 1 \in 1..Len(a) /\ a[k + 1] = Message[k]
      BY <2>2, <2>6
    <3> QED
      BY <3>1 DEF Within
  <2>8. Within(Message, inbuf)
    <3>1. ASSUME NEW k \in 1..Len(Message) PROVE k + 1 \in 1..Len(inbuf) /\ inbuf[k + 1] = Message[k]
      BY <2>2, <2>4
    <3> QED
      BY <3>1 DEF Within
  <2>9. Precedes(Message, Rest)
    BY <2>5, <2>7, PrecedesWithin, WithinItself
  <2>10. ASSUME NEW s, Within(s, inbuf) PROVE Arrived(s)
    BY <1>0, <2>10, AskedWithin, PrecedesWithin, WithinItself DEF OrderInv, Arrived
  <2>11. ASSUME NEW p \in 1..Len(handed)
         PROVE  Arrived(handed[p]) /\ Precedes(handed[p], Rest) /\ Precedes(handed[p], Message)
    BY <2>5, <2>8, PrecedesWithin, WithinItself DEF OrderInv
  <2>12. Arrived(Message) /\ Arrived(Rest)
    BY <2>5, <2>8, <2>10
  <2>13. /\ Len(handed') = Len(handed) + 1 /\ handed'[Len(handed) + 1] = Message
         /\ \A j \in 1..Len(handed) : handed'[j] = handed[j]
    BY <2>1, <2>2, HandedType
  <2>14. ASSUME NEW p \in 1..Len(handed')
         PROVE  Arrived(handed'[p]) /\ Precedes(handed'[p], Rest)
    <3>1. CASE p \in 1..Len(handed)
      BY <2>11, <2>13, <3>1
    <3>2. CASE p = Len(handed) + 1
      BY <2>9, <2>12, <2>13, <3>2
    <3> QED
      BY <1>0, <2>13, <3>1, <3>2
  <2>15. ASSUME NEW p \in 1..Len(handed'), NEW q \in 1..Len(handed'), p < q
         PROVE  Precedes(handed'[p], handed'[q])
    <3>1. p \in 1..Len(handed) /\ handed'[p] = handed[p]
      BY <1>0, <2>13, <2>15
    <3>2. CASE q \in 1..Len(handed)
      BY <2>13, <2>15, <3>1, <3>2 DEF OrderInv
    <3>3. CASE q = Len(handed) + 1
      BY <2>11, <2>13, <3>1, <3>3
    <3> QED
      BY <1>0, <2>13, <3>2, <3>3
  <2>16. Ordered(inbuf') /\ Arrived(inbuf)'
    BY <2>1, <2>5, <2>12 DEF Arrived, Asked
  <2>17. \A p \in 1..Len(handed') : Arrived(handed[p])' /\ Precedes(handed'[p], inbuf')
    BY <2>1, <2>14 DEF Arrived, Asked
  <2>18. Ordered(inq') /\ Asked(inq)' /\ Precedes(inq', wire') /\ Ordered(wire') /\ Asked(wire)'
    BY <2>1 DEF OrderInv, Asked
  <2> QED
    BY <2>15, <2>16, <2>17, <2>18 DEF OrderInv
<1> QED
  BY <1>1, <1>2, <1>3, <1>4, <1>5
  DEF Next, Loop, Worker, Recv, Close, OnMsg, ReadAgain, ReadEnd, EndPick, RunTask, WriteCb,
      TakeJob, CheckConn, Post, vars, client, net

THEOREM OrderInvAlways == Spec => [](TypeOK /\ OrderInv)
<1>1. Init => TypeOK /\ OrderInv
  BY InitTypes, OrderInit
<1>2. TypeOK /\ OrderInv /\ [Next]_vars => (TypeOK /\ OrderInv)'
  BY NextTypes, OrderNext
<1> QED
  BY <1>1, <1>2, PTL DEF Spec

LEMMA OrderSuffices == TypeOK /\ OrderInv => RequestsInOrder
<1> SUFFICES ASSUME TypeOK, OrderInv, NEW p \in DOMAIN handed, NEW q \in DOMAIN handed, p < q,
                    NEW i \in Requests, NEW j \in Requests, handed[p] = Body(i), handed[q] = Body(j)
             PROVE  i < j
  BY DEF RequestsInOrder
<1>1. p \in 1..Len(handed) /\ q \in 1..Len(handed)
  BY DEF TypeOK
<1>2. Precedes(Body(i), Body(j))
  BY <1>1 DEF OrderInv
<1>3. /\ 1 \in 1..Len(Body(i)) /\ Body(i)[1] = <<i, 1>>
      /\ 1 \in 1..Len(Body(j)) /\ Body(j)[1] = <<j, 1>>
  BY BodyType, Lengths
<1>4. Before(<<i, 1>>, <<j, 1>>)
  BY <1>2, <1>3 DEF Precedes, Filler
<1> QED
  BY <1>4 DEF Before

\* No request is handed up twice or behind a later one, however the stream was
\* cut and whatever on_msg lost or made of it.
THEOREM HandedInOrder == Spec => []RequestsInOrder
BY OrderInvAlways, OrderSuffices, PTL

-----------------------------------------------------------------------------
(* The replies *)

Stream == (received \o sockbuf) \o outbuf

\* b is what is sent as the j-th reply: its first parts, and zeros.
Block(b, j) ==
    /\ Len(b) > 0 /\ b[1] = <<j, 1>>
    /\ \A k \in 1..Len(b) : b[k] # Filler => /\ b[k] = <<j, k>>
                                             /\ k > 1 => b[k - 1] = <<j, k - 1>>

\* No part twice, and none but behind the part before it.
Proper(s) ==
    \A p \in 1..Len(s) : s[p] # Filler =>
        /\ \A q \in 1..Len(s) : q # p => s[q] # s[p]
        /\ s[p][2] > 0
        /\ s[p][2] > 1 => p > 1 /\ s[p - 1] = <<s[p][1], s[p][2] - 1>>

Of(s, j) == \E p \in 1..Len(s) : s[p] # Filler /\ s[p][1] = j

\* Where the j-th message or its reply may be.
Queued(j)   == \E k \in 1..Len(jobs) : jobs[k] = j
Worked(j)   == \E w \in Workers : job[w] = j
Copied(j)   == \E k \in 1..Len(tasks) : Block(tasks[k], j)
Streamed(j) == Of(Stream, j)

\* It is in at most one place, and there once.
Once ==
    /\ \A k, l \in 1..Len(jobs) : jobs[k] = jobs[l] => k = l
    /\ \A v, w \in Workers : job[v] = job[w] /\ job[v] # None => v = w
    /\ \A k \in 1..Len(tasks) : \E j \in 1..Len(handed) : Block(tasks[k], j)
    /\ \A k, l \in 1..Len(tasks), j \in Nat : Block(tasks[k], j) /\ Block(tasks[l], j) => k = l
    /\ \A j \in Nat : /\ Queued(j) => ~Worked(j) /\ ~Copied(j) /\ ~Streamed(j)
                      /\ Worked(j) => ~Copied(j) /\ ~Streamed(j)
                      /\ Copied(j) => ~Streamed(j)
                      /\ Streamed(j) => j \in 1..Len(handed)

ReplyInv == Once /\ Proper(Stream)

LEMMA StreamType ==
    ASSUME TypeOK
    PROVE  /\ Stream \in Seq(Parts)
           /\ Len(Stream) = Len(received) + Len(sockbuf) + Len(outbuf)
           /\ {received, sockbuf, outbuf} \subseteq Seq(Parts)
<1>1. received \in Seq(Parts) /\ sockbuf \in Seq(Parts) /\ outbuf \in Seq(Parts)
  BY DEF TypeOK
<1>2. received \o sockbuf \in Seq(Parts) /\ Len(received \o sockbuf) = Len(received) + Len(sockbuf)
  BY <1>1, Joined
<1> QED
  BY <1>1, <1>2, Joined DEF Stream

LEMMA PartsAssociate == \A s, t, u \in Seq(Parts) : (s \o t) \o u = s \o (t \o u)
BY ConcatAssociative

LEMMA BlockOf ==
    ASSUME NEW b, NEW i, NEW j, Block(b, i), Block(b, j)
    PROVE  i = j
BY DEF Block

LEMMA RepliesAreBlocks ==
    ASSUME NEW j \in Nat, NEW msg
    PROVE  Block(Reply(j, msg), j) /\ Block(Copy(Reply(j, msg)), j)
<1>1. Size(msg) \in Nat \ {0} /\ CopyLen \in Nat \ {0}
  BY ReplyType, Lengths
<1>2. Block(Reply(j, msg), j)
  BY <1>1, ReplyType DEF Block
<1>3. ASSUME NEW k \in 1..Size(msg), k <= CopyLen, k > 1
      PROVE  k - 1 \in 1..Size(msg) /\ k - 1 <= CopyLen
  BY <1>1, <1>3
<1>4. Block(Copy(Reply(j, msg)), j)
  <2> DEFINE b == Copy(Reply(j, msg))
  <2>1. Len(b) = Size(msg) /\ \A k \in 1..Size(msg) : b[k] = IF k <= CopyLen THEN <<j, k>> ELSE Filler
    BY CopyType
  <2> HIDE DEF b
  <2>2. Len(b) > 0 /\ b[1] = <<j, 1>>
    BY <1>1, <2>1
  <2>3. ASSUME NEW k \in 1..Len(b), b[k] # Filler
        PROVE  b[k] = <<j, k>> /\ (k > 1 => b[k - 1] = <<j, k - 1>>)
    BY <1>1, <1>3, <2>1, <2>3
  <2> QED
    BY <2>2, <2>3 DEF Block, b
<1> QED
  BY <1>2, <1>4

\* A block of a new reply behind a proper stream.
LEMMA ProperJoin ==
    ASSUME NEW s \in Seq(Parts), NEW b \in Seq(Parts), NEW j \in Nat,
           Proper(s), Block(b, j), ~Of(s, j)
    PROVE  /\ Proper(s \o b)
           /\ \A i : Of(s \o b, i) => Of(s, i) \/ i = j
<1> DEFINE sb == s \o b
<1>1. Len(s) \in Nat /\ Len(b) \in Nat
  OBVIOUS
<1>2. Len(sb) = Len(s) + Len(b) /\ \A k \in 1..Len(s) : sb[k] = s[k]
  BY Joined
<1>3. \A k \in 1..Len(b) : sb[Len(s) + k] = b[k]
  BY Joined
<1> HIDE DEF sb
<1>4. ASSUME NEW k \in 1..Len(sb), ~(k <= Len(s))
      PROVE  k - Len(s) \in 1..Len(b) /\ sb[k] = b[k - Len(s)]
  BY <1>1, <1>2, <1>3, <1>4, Len(s) + (k - Len(s)) = k
<1>5. ASSUME NEW k \in 1..Len(sb), k <= Len(s)
      PROVE  k \in 1..Len(s) /\ sb[k] = s[k]
  BY <1>1, <1>2, <1>5
<1>6. ASSUME NEW k \in 1..Len(sb), ~(k <= Len(s)), sb[k] # Filler
      PROVE  sb[k] = <<j, k - Len(s)>> /\ sb[k][1] = j /\ sb[k][2] = k - Len(s)
  BY <1>4, <1>6 DEF Block
<1>7. ASSUME NEW k \in 1..Len(sb), k <= Len(s), sb[k] # Filler PROVE sb[k][1] # j
  BY <1>5, <1>7 DEF Of
<1>8. ASSUME NEW p \in 1..Len(sb), sb[p] # Filler
      PROVE  /\ \A q \in 1..Len(sb) : q # p => sb[q] # sb[p]
             /\ sb[p][2] > 0
             /\ sb[p][2] > 1 => p > 1 /\ sb[p - 1] = <<sb[p][1], sb[p][2] - 1>>
  <2>1. ASSUME NEW q \in 1..Len(sb), sb[q] = sb[p] PROVE q = p
    <3>1. CASE p <= Len(s) /\ q <= Len(s)
      BY <1>5, <1>8, <2>1, <3>1 DEF Proper
    <3>2. CASE ~(p <= Len(s)) /\ ~(q <= Len(s))
      <4>1. q - Len(s) = p - Len(s)
        BY <1>6, <1>8, <2>1, <3>2
      <4> QED
        BY <1>1, <4>1
    <3>3. CASE p <= Len(s) /\ ~(q <= Len(s))
      BY <1>6, <1>7, <1>8, <2>1, <3>3
    <3>4. CASE ~(p <= Len(s)) /\ q <= Len(s)
      BY <1>6, <1>7, <1>8, <2>1, <3>4
    <3> QED
      BY <3>1, <3>2, <3>3, <3>4
  <2>2. CASE p <= Len(s)
    <3>1. s[p][2] > 0 /\ (s[p][2] > 1 => p > 1 /\ s[p - 1] = <<s[p][1], s[p][2] - 1>>)
      BY <1>5, <1>8, <2>2 DEF Proper
    <3>2. p > 1 => sb[p - 1] = s[p - 1]
      BY <1>1, <1>2, <1>5, <2>2
    <3>3. sb[p] = s[p]
      BY <1>5, <2>2
    <3> QED
      BY <2>1, <3>1, <3>2, <3>3
  <2>3. CASE ~(p <= Len(s))
    <3>1. p - Len(s) \in 1..Len(b) /\ sb[p] = b[p - Len(s)] /\ sb[p][1] = j /\ sb[p][2] = p - Len(s)
      BY <1>4, <1>6, <1>8, <2>3
    <3>2. p - Len(s) > 1 => b[p - Len(s) - 1] = <<j, p - Len(s) - 1>>
      BY <1>8, <3>1 DEF Block
    <3>3. ASSUME p - Len(s) > 1
          PROVE  p > 1 /\ p - 1 \in 1..Len(sb) /\ ~(p - 1 <= Len(s)) /\ (p - 1) - Len(s) = p - Len(s) - 1
      BY <1>1, <1>2, <2>3, <3>3
    <3>4. p - Len(s) > 1 => p > 1 /\ sb[p - 1] = <<j, p - Len(s) - 1>>
      BY <1>4, <3>2, <3>3
    <3> QED
      BY <2>1, <3>1, <3>4
  <2> QED
    BY <2>2, <2>3
<1>9. ASSUME NEW i, Of(sb, i) PROVE Of(s, i) \/ i = j
  <2>1. PICK p \in 1..Len(sb) : sb[p] # Filler /\ sb[p][1] = i
    BY <1>9 DEF Of
  <2> QED
    BY <1>5, <1>6, <2>1 DEF Of
<1> QED
  BY <1>8, <1>9 DEF Proper, sb

LEMMA ProperPrefix ==
    ASSUME NEW s \in Seq(Parts), NEW t \in Seq(Parts), Proper(s), Len(t) <= Len(s),
           \A k \in 1..Len(t) : t[k] = s[k]
    PROVE  Proper(t) /\ \A i : Of(t, i) => Of(s, i)
<1>1. Len(s) \in Nat /\ Len(t) \in Nat /\ \A k \in 1..Len(t) : k \in 1..Len(s)
  OBVIOUS
<1>2. \A i : Of(t, i) => Of(s, i)
  BY <1>1 DEF Of
<1>3. ASSUME NEW p \in 1..Len(t), t[p] # Filler
      PROVE  /\ \A q \in 1..Len(t) : q # p => t[q] # t[p]
             /\ t[p][2] > 0
             /\ t[p][2] > 1 => p > 1 /\ t[p - 1] = <<t[p][1], t[p][2] - 1>>
  <2>1. p > 1 => p - 1 \in 1..Len(t)
    BY <1>1
  <2> QED
    BY <1>1, <1>3, <2>1 DEF Proper
<1> QED
  BY <1>2, <1>3 DEF Proper

LEMMA ReplyInit == Init => ReplyInv
<1> SUFFICES ASSUME Init PROVE ReplyInv
  OBVIOUS
<1>1. TypeOK
  BY InitTypes
<1>2. Len(Stream) = 0 /\ jobs = <<>> /\ tasks = <<>> /\ \A w \in Workers : job[w] = None
  BY <1>1, StreamType DEF Init
<1>3. Proper(Stream) /\ \A j : ~Streamed(j)
  BY <1>2 DEF Proper, Streamed, Of
<1> QED
  BY <1>2, <1>3, NoneAssumption DEF ReplyInv, Once, Queued, Worked, Copied

\* The stream under the steps that touch it.
LEMMA SendInLoopStream ==
    ASSUME TypeOK, ReplyInv, NEW j \in Nat, NEW reply \in Seq(Parts), Block(reply, j), ~Streamed(j),
           SendInLoop(reply), UNCHANGED received, UNCHANGED sockbuf
    PROVE  /\ Proper(Stream')
           /\ \A i : Of(Stream', i) => Streamed(i) \/ i = j
<1>1. CASE disconn
  <2>1. Stream' = Stream
    BY <1>1 DEF SendInLoop, Stream
  <2> QED
    BY <2>1 DEF ReplyInv, Streamed
<1>2. CASE ~disconn
  <2> DEFINE front == received \o sockbuf
  <2>1. Stream' = front \o (outbuf \o reply)
    BY <1>2 DEF SendInLoop, Stream
  <2>2. front \in Seq(Parts) /\ outbuf \in Seq(Parts)
    BY Joined DEF TypeOK
  <2>3. Stream = front \o outbuf
    BY DEF Stream
  <2> HIDE DEF front
  <2>4. Stream' = Stream \o reply
    BY <2>1, <2>2, <2>3, PartsAssociate
  <2> QED
    BY <2>4, StreamType, ProperJoin DEF ReplyInv, Streamed
<1> QED
  BY <1>1, <1>2

LEMMA SendStream ==
    ASSUME TypeOK, ReplyInv, Send, UNCHANGED received
    PROVE  Proper(Stream') /\ \A i : Of(Stream', i) => Streamed(i)
<1> DEFINE front == received \o sockbuf
           sent  == SubSeq(outbuf, 1, Fitting)
<1>1. /\ received \in Seq(Parts) /\ sockbuf \in Seq(Parts) /\ outbuf \in Seq(Parts)
      /\ Len(outbuf) \in Nat
  BY DEF TypeOK
<1>2. front \in Seq(Parts) /\ Len(front) \in Nat
  BY <1>1, Joined
<1>3. /\ sent \in Seq(Parts) /\ Len(sent) = Fitting + 1 - 1
      /\ \A k \in 1..(Fitting + 1 - 1) : sent[k] = outbuf[1 - 1 + k]
  BY <1>1, FittingType, Slice
<1>4. sockbuf' = sockbuf \o sent /\ outbuf' = <<>>
  BY DEF Send, Fitting
<1>5. Stream = front \o outbuf
  BY DEF Stream
<1>6. Stream' = (received \o (sockbuf \o sent)) \o <<>>
  BY <1>4 DEF Stream
<1> HIDE DEF sent
<1>7. received \o (sockbuf \o sent) = (received \o sockbuf) \o sent
  BY <1>1, <1>3, PartsAssociate
<1> HIDE DEF front
<1>8. Stream' = front \o sent
  <2>1. front \o sent \in Seq(Parts)
    BY <1>2, <1>3, Joined
  <2> QED
    BY <1>6, <1>7, <2>1, ConcatEmptySeq DEF front
<1>9. Len(sent) <= Len(outbuf) /\ Len(sent) \in Nat /\ \A k \in 1..Len(sent) : sent[k] = outbuf[k]
  BY <1>3, FittingType
<1>10. /\ Len(Stream) = Len(front) + Len(outbuf) /\ Stream \in Seq(Parts)
       /\ \A k \in 1..Len(front) : Stream[k] = front[k]
       /\ \A k \in 1..Len(outbuf) : Stream[Len(front) + k] = outbuf[k]
  BY <1>1, <1>2, <1>5, Joined
<1>11. /\ Len(Stream') = Len(front) + Len(sent) /\ Stream' \in Seq(Parts)
       /\ \A k \in 1..Len(front) : Stream'[k] = front[k]
       /\ \A k \in 1..Len(sent) : Stream'[Len(front) + k] = sent[k]
  <2>1. /\ Len(front \o sent) = Len(front) + Len(sent) /\ front \o sent \in Seq(Parts)
        /\ \A k \in 1..Len(front) : (front \o sent)[k] = front[k]
        /\ \A k \in 1..Len(sent) : (front \o sent)[Len(front) + k] = sent[k]
    <3>1. front \in Seq(Parts) /\ sent \in Seq(Parts)
      BY <1>2, <1>3
    <3> QED
      BY <3>1, Joined
  <2> QED
    BY <1>8, <2>1
<1>12. ASSUME NEW k \in 1..Len(Stream') PROVE Stream'[k] = Stream[k]
  <2>1. CASE k <= Len(front)
    BY <1>2, <1>10, <1>11, <2>1
  <2>2. CASE ~(k <= Len(front))
    <3>1. /\ k - Len(front) \in 1..Len(sent) /\ k - Len(front) \in 1..Len(outbuf)
          /\ Len(front) + (k - Len(front)) = k
      BY <1>1, <1>2, <1>9, <1>11, <2>2
    <3>2. Stream'[k] = sent[k - Len(front)] /\ Stream[k] = outbuf[k - Len(front)]
      BY <1>10, <1>11, <3>1
    <3> QED
      BY <1>9, <3>1, <3>2
  <2> QED
    BY <2>1, <2>2
<1>13. Len(Stream') <= Len(Stream)
  BY <1>1, <1>2, <1>9, <1>10, <1>11
<1> QED
  BY <1>10, <1>11, <1>12, <1>13, ProperPrefix DEF ReplyInv, Streamed

LEMMA RecvStream ==
    ASSUME TypeOK, Recv
    PROVE  Stream' = Stream
<1>1. PICK n \in 1..Len(sockbuf) : /\ received' = received \o SubSeq(sockbuf, 1, n)
                                   /\ sockbuf' = SubSeq(sockbuf, n + 1, Len(sockbuf))
  BY DEF Recv
<1> DEFINE a == SubSeq(sockbuf, 1, n)
           b == SubSeq(sockbuf, n + 1, Len(sockbuf))
<1>2. received \in Seq(Parts) /\ sockbuf \in Seq(Parts) /\ Len(sockbuf) \in Nat
  BY DEF TypeOK
<1>3. a \in Seq(Parts) /\ b \in Seq(Parts)
  BY <1>2, Slice
<1>4. a \o b = sockbuf
  <2>1. /\ Len(a) = n + 1 - 1 /\ \A k \in 1..(n + 1 - 1) : a[k] = sockbuf[1 - 1 + k]
    BY <1>2, Slice
  <2>2. /\ Len(b) = Len(sockbuf) + 1 - (n + 1)
        /\ \A k \in 1..(Len(sockbuf) + 1 - (n + 1)) : b[k] = sockbuf[n + 1 - 1 + k]
    BY <1>2, Slice
  <2> HIDE DEF a, b
  <2>3. /\ a \o b \in Seq(Parts) /\ Len(a \o b) = Len(a) + Len(b)
        /\ \A k \in 1..Len(a) : (a \o b)[k] = a[k]
        /\ \A k \in 1..Len(b) : (a \o b)[Len(a) + k] = b[k]
    BY <1>3, Joined
  <2>4. Len(a \o b) = Len(sockbuf) /\ Len(a) = n
    BY <1>2, <2>1, <2>2, <2>3
  <2>5. ASSUME NEW k \in 1..Len(sockbuf) PROVE (a \o b)[k] = sockbuf[k]
    <3>1. CASE k <= n
      BY <2>1, <2>3, <2>4, <3>1
    <3>2. CASE ~(k <= n)
      <4>1. k - n \in 1..Len(b) /\ n + (k - n) = k /\ n + 1 - 1 + (k - n) = k
        BY <1>2, <2>2, <3>2
      <4>2. (a \o b)[n + (k - n)] = b[k - n]
        BY <2>3, <2>4, <4>1
      <4>3. b[k - n] = sockbuf[n + 1 - 1 + (k - n)]
        BY <1>2, <2>2, <4>1
      <4> QED
        BY <4>1, <4>2, <4>3
    <3> QED
      BY <3>1, <3>2
  <2> QED
    BY <1>2, <2>3, <2>4, <2>5, SeqEqual
<1>5. received' = received \o a /\ sockbuf' = b /\ UNCHANGED outbuf
  BY <1>1 DEF Recv
<1> HIDE DEF a, b
<1>6. (received \o a) \o b = received \o (a \o b)
  BY <1>2, <1>3, PartsAssociate
<1> QED
  BY <1>4, <1>5, <1>6 DEF Stream

LEMMA JobsType ==
    ASSUME TypeOK
    PROVE  jobs \in Seq(Nat) /\ Len(jobs) \in Nat /\ \A k \in 1..Len(jobs) : jobs[k] \in 1..Len(handed)
<1> DEFINE S == 1..Len(handed)
<1>1. jobs \in Seq(S)
  BY DEF TypeOK
<1>2. S \subseteq Nat
  OBVIOUS
<1> HIDE DEF S
<1>3. \A k \in 1..Len(jobs) : jobs[k] \in S
  BY <1>1
<1>4. jobs \in Seq(Nat) /\ Len(jobs) \in Nat
  <2>1. Len(jobs) \in Nat /\ jobs \in [1..Len(jobs) -> S]
    BY <1>1
  <2>2. jobs \in [1..Len(jobs) -> Nat]
    BY <1>2, <2>1
  <2> QED
    BY <2>1, <2>2, FunctionIsSeq
<1> QED
  BY <1>3, <1>4 DEF S

LEMMA OnlyHanded ==
    ASSUME TypeOK, Once, NEW j \in Nat, Queued(j) \/ Worked(j) \/ Copied(j) \/ Streamed(j)
    PROVE  j \in 1..Len(handed)
<1>1. CASE Queued(j)
  BY <1>1, JobsType DEF Queued
<1>2. CASE Worked(j)
  <2>1. PICK w \in Workers : job[w] = j
    BY <1>2 DEF Worked
  <2>2. job[w] # None
    BY <2>1, NoneAssumption
  <2> QED
    BY <2>1, <2>2 DEF TypeOK
<1>3. CASE Copied(j)
  <2>1. PICK k \in 1..Len(tasks) : Block(tasks[k], j)
    BY <1>3 DEF Copied
  <2>2. PICK i \in 1..Len(handed) : Block(tasks[k], i)
    BY <2>1 DEF Once
  <2> QED
    BY <2>1, <2>2, BlockOf
<1>4. CASE Streamed(j)
  BY <1>4 DEF Once
<1> QED
  BY <1>1, <1>2, <1>3, <1>4

LEMMA PickOnce == TypeOK /\ ReplyInv /\ PickMsg => ReplyInv'
<1> SUFFICES ASSUME TypeOK, ReplyInv, PickMsg PROVE ReplyInv'
  OBVIOUS
<1> DEFINE new == Len(handed) + 1
<1>1. Len(handed) \in Nat /\ new \in Nat /\ new \notin 1..Len(handed)
  BY DEF TypeOK
<1>2. /\ Whole /\ handed' = Append(handed, Message)
      /\ UNCHANGED job /\ UNCHANGED tasks /\ UNCHANGED received /\ UNCHANGED sockbuf
  BY DEF PickMsg, client
<1>3. Len(handed') = new
  BY <1>2, MessageType, HandedType
<1>4. ~Queued(new) /\ ~Worked(new) /\ ~Copied(new) /\ ~Streamed(new)
  BY <1>1, OnlyHanded DEF ReplyInv
<1>5. 1..Len(handed) \subseteq 1..Len(handed') /\ new \in 1..Len(handed')
  BY <1>1, <1>3
<1>6. /\ \A v, w \in Workers : job'[v] = job'[w] /\ job'[v] # None => v = w
      /\ \A k \in 1..Len(tasks') : \E j \in 1..Len(handed') : Block(tasks'[k], j)
      /\ \A k, l \in 1..Len(tasks'), j \in Nat : Block(tasks'[k], j) /\ Block(tasks'[l], j) => k = l
      /\ \A j \in Nat : (Worked(j)' <=> Worked(j)) /\ (Copied(j)' <=> Copied(j))
  BY <1>2, <1>5 DEF ReplyInv, Once, Worked, Copied
<1>7. CASE env.pooled
  <2>1. jobs' = Append(jobs, new) /\ UNCHANGED outbuf
    BY <1>7 DEF PickMsg
  <2>2. Stream' = Stream
    BY <1>2, <2>1 DEF Stream
  <2>3. jobs \in Seq(Nat) /\ Len(jobs) \in Nat /\ \A k \in 1..Len(jobs) : jobs[k] \in 1..Len(handed)
    BY JobsType
  <2>4. /\ Len(jobs') = Len(jobs) + 1 /\ jobs'[Len(jobs) + 1] = new
        /\ \A k \in 1..Len(jobs) : jobs'[k] = jobs[k]
    BY <1>1, <2>1, <2>3
  <2> HIDE DEF new
  <2>5. \A k, l \in 1..Len(jobs') : jobs'[k] = jobs'[l] => k = l
    BY <1>1, <2>3, <2>4 DEF ReplyInv, Once
  <2>6. \A j \in Nat : Queued(j)' => Queued(j) \/ j = new
    BY <2>3, <2>4 DEF Queued
  <2>7. \A j \in Nat : Streamed(j)' <=> Streamed(j)
    BY <2>2 DEF Streamed
  <2>8. \A j \in Nat : /\ Queued(j)' => ~Worked(j)' /\ ~Copied(j)' /\ ~Streamed(j)'
                       /\ Worked(j)' => ~Copied(j)' /\ ~Streamed(j)'
                       /\ Copied(j)' => ~Streamed(j)'
                       /\ Streamed(j)' => j \in 1..Len(handed')
    BY <1>4, <1>5, <1>6, <2>6, <2>7 DEF ReplyInv, Once
  <2> QED
    BY <1>6, <2>2, <2>5, <2>8 DEF ReplyInv, Once
<1>8. CASE ~env.pooled
  <2>1. SendInLoop(Reply(new, Message)) /\ UNCHANGED jobs
    BY <1>8 DEF PickMsg
  <2>2. Block(Reply(new, Message), new) /\ Reply(new, Message) \in Seq(Parts)
    BY <1>1, RepliesAreBlocks, ReplyType
  <2> HIDE DEF new
  <2>3. Proper(Stream') /\ \A i : Of(Stream', i) => Streamed(i) \/ i = new
    BY <1>1, <1>2, <1>4, <2>1, <2>2, SendInLoopStream
  <2>4. \A j \in Nat : (Queued(j)' <=> Queued(j)) /\ (Streamed(j)' => Streamed(j) \/ j = new)
    BY <2>1, <2>3 DEF Queued, Streamed
  <2>5. \A k, l \in 1..Len(jobs') : jobs'[k] = jobs'[l] => k = l
    BY <2>1 DEF ReplyInv, Once
  <2>6. \A j \in Nat : /\ Queued(j)' => ~Worked(j)' /\ ~Copied(j)' /\ ~Streamed(j)'
                       /\ Worked(j)' => ~Copied(j)' /\ ~Streamed(j)'
                       /\ Copied(j)' => ~Streamed(j)'
                       /\ Streamed(j)' => j \in 1..Len(handed')
    BY <1>4, <1>5, <1>6, <2>4 DEF ReplyInv, Once
  <2> QED
    BY <1>6, <2>3, <2>5, <2>6 DEF ReplyInv, Once
<1> QED
  BY <1>7, <1>8

\* What a sequence without repetitions loses with its head.
LEMMA TakeHead ==
    ASSUME NEW S, NEW s \in Seq(S), s # <<>>
    PROVE  /\ Len(Tail(s)) \in Nat /\ 1 \in 1..Len(s) /\ Head(s) = s[1]
           /\ \A k \in 1..Len(Tail(s)) : /\ k + 1 \in 1..Len(s) /\ k + 1 # 1
                                         /\ Tail(s)[k] = s[k + 1]
OBVIOUS

LEMMA WorkerOnce ==
    ASSUME TypeOK, ReplyInv, NEW w \in Workers, Worker(w)
    PROVE  ReplyInv'
<1>1. Stream' = Stream /\ UNCHANGED handed
  BY DEF Worker, TakeJob, CheckConn, Post, client, out, Stream
<1>2. \A j \in Nat : Streamed(j)' <=> Streamed(j)
  BY <1>1 DEF Streamed
<1>3. CASE TakeJob(w)
  <2>1. /\ jobs # <<>> /\ jobs' = Tail(jobs) /\ UNCHANGED tasks
        /\ job' = [job EXCEPT ![w] = Head(jobs)] /\ wpc[w] = "idle"
    BY <1>3 DEF TakeJob, WorkerAt
  <2>2. jobs \in Seq(Nat) /\ job \in [Workers -> Nat \cup {None}] /\ job[w] = None
    BY <2>1 DEF TypeOK
  <2>3. /\ Len(jobs') \in Nat /\ 1 \in 1..Len(jobs) /\ Head(jobs) = jobs[1] /\ jobs[1] \in Nat
        /\ \A k \in 1..Len(jobs') : /\ k + 1 \in 1..Len(jobs) /\ k + 1 # 1
                                    /\ jobs'[k] = jobs[k + 1]
    BY <2>1, <2>2, TakeHead
  <2> DEFINE j0 == jobs[1]
  <2>4. Queued(j0) /\ ~Worked(j0) /\ ~Copied(j0) /\ ~Streamed(j0)
    BY <2>3 DEF Queued, ReplyInv, Once
  <2>5. \A j \in Nat : Queued(j)' => Queued(j) /\ j # j0
    BY <2>3 DEF Queued, ReplyInv, Once
  <2>6. job'[w] = j0 /\ \A v \in Workers : v # w => job'[v] = job[v]
    BY <2>1, <2>2, <2>3
  <2> HIDE DEF j0
  <2>7. \A j \in Nat : Worked(j)' => Worked(j) \/ j = j0
    BY <2>6 DEF Worked
  <2>8. \A k, l \in 1..Len(jobs') : jobs'[k] = jobs'[l] => k = l
    BY <2>3 DEF ReplyInv, Once
  <2>9. \A v, u \in Workers : job'[v] = job'[u] /\ job'[v] # None => v = u
    BY <2>4, <2>6 DEF ReplyInv, Once, Worked
  <2>10. \A j \in Nat : Copied(j)' <=> Copied(j)
    BY <2>1 DEF Copied
  <2>11. \A j \in Nat : /\ Queued(j)' => ~Worked(j)' /\ ~Copied(j)' /\ ~Streamed(j)'
                        /\ Worked(j)' => ~Copied(j)' /\ ~Streamed(j)'
                        /\ Copied(j)' => ~Streamed(j)'
                        /\ Streamed(j)' => j \in 1..Len(handed')
    BY <1>1, <1>2, <2>4, <2>5, <2>7, <2>10 DEF ReplyInv, Once
  <2> QED
    BY <1>1, <2>1, <2>8, <2>9, <2>11 DEF ReplyInv, Once
<1>4. CASE CheckConn(w)
  <2>1. /\ UNCHANGED jobs /\ UNCHANGED tasks
        /\ job' = [job EXCEPT ![w] = IF disconn THEN None ELSE @]
    BY <1>4 DEF CheckConn
  <2>2. job \in [Workers -> Nat \cup {None}]
    BY DEF TypeOK
  <2>3. \A v \in Workers : job'[v] = job[v] \/ job'[v] = None
    BY <2>1, <2>2
  <2>4. \A j \in Nat : Worked(j)' => Worked(j)
    BY <2>3, NoneAssumption DEF Worked
  <2>5. \A j \in Nat : (Queued(j)' <=> Queued(j)) /\ (Copied(j)' <=> Copied(j))
    BY <2>1 DEF Queued, Copied
  <2>6. \A v, u \in Workers : job'[v] = job'[u] /\ job'[v] # None => v = u
    BY <2>3 DEF ReplyInv, Once
  <2>7. \A j \in Nat : /\ Queued(j)' => ~Worked(j)' /\ ~Copied(j)' /\ ~Streamed(j)'
                       /\ Worked(j)' => ~Copied(j)' /\ ~Streamed(j)'
                       /\ Copied(j)' => ~Streamed(j)'
                       /\ Streamed(j)' => j \in 1..Len(handed')
    BY <1>1, <1>2, <2>4, <2>5 DEF ReplyInv, Once
  <2> QED
    BY <1>1, <2>1, <2>6, <2>7 DEF ReplyInv, Once
<1>5. CASE Post(w)
  <2> DEFINE j0 == job[w]
             b  == Copy(Reply(j0, handed[j0]))
  <2>1. /\ UNCHANGED jobs /\ tasks' = Append(tasks, b)
        /\ job' = [job EXCEPT ![w] = None] /\ wpc[w] = "copy"
    BY <1>5 DEF Post, WorkerAt
  <2>2. job \in [Workers -> Nat \cup {None}] /\ j0 \in 1..Len(handed) /\ j0 \in Nat
    BY <2>1 DEF TypeOK
  <2>3. Block(b, j0) /\ b \in Seq(Parts)
    BY <2>2, RepliesAreBlocks, CopyType
  <2> HIDE DEF b
  <2>4. tasks \in Seq(Seq(Parts)) /\ Len(tasks) \in Nat
    BY DEF TypeOK
  <2>5. /\ Len(tasks') = Len(tasks) + 1 /\ tasks'[Len(tasks) + 1] = b
        /\ \A k \in 1..Len(tasks) : tasks'[k] = tasks[k]
    BY <2>1, <2>3, <2>4
  <2>6. Worked(j0) /\ ~Queued(j0) /\ ~Copied(j0) /\ ~Streamed(j0)
    BY <2>2 DEF Worked, ReplyInv, Once
  <2>7. job'[w] = None /\ \A v \in Workers : v # w => job'[v] = job[v]
    BY <2>1, <2>2
  <2>8. j0 # None
    BY <2>2, NoneAssumption
  <2>9. \A v \in Workers : v # w => job[v] # j0
    BY <2>8 DEF ReplyInv, Once
  <2> HIDE DEF j0
  <2>10. \A j \in Nat : Worked(j)' => Worked(j) /\ j # j0
    BY <2>7, <2>9, NoneAssumption DEF Worked
  <2>11. \A j \in Nat : Copied(j)' => Copied(j) \/ j = j0
    <3> SUFFICES ASSUME NEW j \in Nat, NEW k \in 1..Len(tasks'), Block(tasks'[k], j) PROVE Copied(j) \/ j = j0
      BY DEF Copied
    <3>1. CASE k = Len(tasks) + 1
      BY <2>3, <2>5, <3>1, BlockOf
    <3>2. CASE k # Len(tasks) + 1
      <4>1. k \in 1..Len(tasks) /\ tasks'[k] = tasks[k]
        BY <2>4, <2>5, <3>2
      <4> QED
        BY <4>1 DEF Copied
    <3> QED
      BY <3>1, <3>2
  <2>12. \A v, u \in Workers : job'[v] = job'[u] /\ job'[v] # None => v = u
    BY <2>7 DEF ReplyInv, Once
  <2>13. ASSUME NEW k \in 1..Len(tasks') PROVE \E j \in 1..Len(handed') : Block(tasks'[k], j)
    <3>1. CASE k = Len(tasks) + 1
      BY <1>1, <2>2, <2>3, <2>5, <3>1
    <3>2. CASE k # Len(tasks) + 1
      <4>1. k \in 1..Len(tasks) /\ tasks'[k] = tasks[k]
        BY <2>4, <2>5, <3>2
      <4> QED
        BY <1>1, <4>1 DEF ReplyInv, Once
    <3> QED
      BY <3>1, <3>2
  <2>14. ASSUME NEW k \in 1..Len(tasks'), NEW l \in 1..Len(tasks'), NEW j \in Nat,
                Block(tasks'[k], j), Block(tasks'[l], j)
         PROVE  k = l
    <3>1. ASSUME NEW m \in 1..Len(tasks'), m # Len(tasks) + 1
          PROVE  m \in 1..Len(tasks) /\ tasks'[m] = tasks[m]
      BY <2>4, <2>5, <3>1
    <3>2. ASSUME NEW m \in 1..Len(tasks'), m = Len(tasks) + 1, Block(tasks'[m], j) PROVE j = j0
      BY <2>3, <2>5, <3>2, BlockOf
    <3>3. ASSUME NEW m \in 1..Len(tasks'), m # Len(tasks) + 1, Block(tasks'[m], j) PROVE j # j0
      BY <2>6, <3>1, <3>3 DEF Copied
    <3>4. CASE k = Len(tasks) + 1
      BY <2>14, <3>2, <3>3, <3>4
    <3>5. CASE l = Len(tasks) + 1
      BY <2>14, <3>2, <3>3, <3>5
    <3>6. CASE k # Len(tasks) + 1 /\ l # Len(tasks) + 1
      BY <2>14, <3>1, <3>6 DEF ReplyInv, Once
    <3> QED
      BY <3>4, <3>5, <3>6
  <2>15. \A j \in Nat : Queued(j)' <=> Queued(j)
    BY <2>1 DEF Queued
  <2>16. \A j \in Nat : /\ Queued(j)' => ~Worked(j)' /\ ~Copied(j)' /\ ~Streamed(j)'
                        /\ Worked(j)' => ~Copied(j)' /\ ~Streamed(j)'
                        /\ Copied(j)' => ~Streamed(j)'
                        /\ Streamed(j)' => j \in 1..Len(handed')
    BY <1>1, <1>2, <2>6, <2>10, <2>11, <2>15 DEF ReplyInv, Once
  <2> QED
    BY <1>1, <2>1, <2>12, <2>13, <2>14, <2>16 DEF ReplyInv, Once
<1> QED
  BY <1>3, <1>4, <1>5 DEF Worker

LEMMA RunTaskOnce == TypeOK /\ ReplyInv /\ RunTask => ReplyInv'
<1> SUFFICES ASSUME TypeOK, ReplyInv, RunTask PROVE ReplyInv'
  OBVIOUS
<1>1. /\ tasks # <<>> /\ tasks' = Tail(tasks) /\ SendInLoop(Head(tasks))
      /\ UNCHANGED jobs /\ UNCHANGED job /\ UNCHANGED handed
      /\ UNCHANGED received /\ UNCHANGED sockbuf
  BY DEF RunTask, client
<1>2. tasks \in Seq(Seq(Parts)) /\ Len(handed) \in Nat
  BY DEF TypeOK
<1>3. /\ Len(tasks') \in Nat /\ 1 \in 1..Len(tasks) /\ Head(tasks) = tasks[1]
      /\ \A k \in 1..Len(tasks') : /\ k + 1 \in 1..Len(tasks) /\ k + 1 # 1
                                   /\ tasks'[k] = tasks[k + 1]
  BY <1>1, <1>2, TakeHead
<1>4. PICK j0 \in 1..Len(handed) : Block(tasks[1], j0)
  BY <1>3 DEF ReplyInv, Once
<1>5. j0 \in Nat
  BY <1>4
<1>6. Copied(j0) /\ ~Queued(j0) /\ ~Worked(j0) /\ ~Streamed(j0)
  BY <1>3, <1>4, <1>5 DEF Copied, ReplyInv, Once
<1>7. tasks[1] \in Seq(Parts)
  BY <1>2, <1>3
<1>8. Proper(Stream') /\ \A i : Of(Stream', i) => Streamed(i) \/ i = j0
  BY <1>1, <1>3, <1>4, <1>5, <1>6, <1>7, SendInLoopStream
<1>9. \A j \in Nat : Copied(j)' => Copied(j) /\ j # j0
  <2> SUFFICES ASSUME NEW j \in Nat, NEW k \in 1..Len(tasks'), Block(tasks'[k], j)
               PROVE  Copied(j) /\ j # j0
    BY DEF Copied
  <2>1. k + 1 \in 1..Len(tasks) /\ k + 1 # 1 /\ Block(tasks[k + 1], j)
    BY <1>3
  <2>2. Copied(j)
    BY <2>1 DEF Copied
  <2>3. j # j0
    BY <1>3, <1>4, <2>1 DEF ReplyInv, Once
  <2> QED
    BY <2>2, <2>3
<1>10. \A j \in Nat : (Queued(j)' <=> Queued(j)) /\ (Worked(j)' <=> Worked(j))
  BY <1>1 DEF Queued, Worked
<1>11. \A j \in Nat : Streamed(j)' => Streamed(j) \/ j = j0
  BY <1>8 DEF Streamed
<1>12. \A k \in 1..Len(tasks') : \E j \in 1..Len(handed') : Block(tasks'[k], j)
  BY <1>1, <1>3 DEF ReplyInv, Once
<1>13. \A k, l \in 1..Len(tasks'), j \in Nat : Block(tasks'[k], j) /\ Block(tasks'[l], j) => k = l
  <2> SUFFICES ASSUME NEW k \in 1..Len(tasks'), NEW l \in 1..Len(tasks'), NEW j \in Nat,
                      Block(tasks'[k], j), Block(tasks'[l], j)
               PROVE  k = l
    OBVIOUS
  <2>1. k + 1 = l + 1
    BY <1>3 DEF ReplyInv, Once
  <2> QED
    BY <1>3, <2>1
<1>14. \A j \in Nat : /\ Queued(j)' => ~Worked(j)' /\ ~Copied(j)' /\ ~Streamed(j)'
                      /\ Worked(j)' => ~Copied(j)' /\ ~Streamed(j)'
                      /\ Copied(j)' => ~Streamed(j)'
                      /\ Streamed(j)' => j \in 1..Len(handed')
  BY <1>1, <1>4, <1>6, <1>9, <1>10, <1>11 DEF ReplyInv, Once
<1> QED
  BY <1>1, <1>8, <1>12, <1>13, <1>14 DEF ReplyInv, Once

LEMMA ReplyNext == TypeOK /\ ReplyInv /\ [Next]_vars => ReplyInv'
<1> SUFFICES ASSUME TypeOK, ReplyInv, [Next]_vars PROVE ReplyInv'
  OBVIOUS
<1>1. ASSUME UNCHANGED <<jobs, job, tasks, handed>>, Proper(Stream'), \A i : Of(Stream', i) => Streamed(i)
      PROVE  ReplyInv'
  <2>1. /\ UNCHANGED jobs /\ UNCHANGED job /\ UNCHANGED tasks /\ UNCHANGED handed
    BY <1>1
  <2>2. \A j \in Nat : /\ (Queued(j)' <=> Queued(j)) /\ (Worked(j)' <=> Worked(j))
                       /\ (Copied(j)' <=> Copied(j)) /\ (Streamed(j)' => Streamed(j))
    BY <1>1, <2>1 DEF Queued, Worked, Copied, Streamed
  <2>3. \A j \in Nat : /\ Queued(j)' => ~Worked(j)' /\ ~Copied(j)' /\ ~Streamed(j)'
                       /\ Worked(j)' => ~Copied(j)' /\ ~Streamed(j)'
                       /\ Copied(j)' => ~Streamed(j)'
                       /\ Streamed(j)' => j \in 1..Len(handed')
    BY <2>1, <2>2 DEF ReplyInv, Once
  <2> QED
    BY <1>1, <2>1, <2>3 DEF ReplyInv, Once
<1>2. CASE UNCHANGED <<received, sockbuf, outbuf, jobs, job, tasks, handed>>
  <2>1. Stream' = Stream
    BY <1>2 DEF Stream
  <2> QED
    BY <1>1, <1>2, <2>1 DEF ReplyInv, Streamed
<1>3. CASE Recv
  <2>1. Stream' = Stream
    BY <1>3, RecvStream
  <2>2. UNCHANGED <<jobs, job, tasks, handed>>
    BY <1>3 DEF Recv, pool
  <2> QED
    BY <1>1, <2>1, <2>2 DEF ReplyInv, Streamed
<1>4. CASE WriteCb
  <2>1. Send /\ UNCHANGED received /\ UNCHANGED <<jobs, job, tasks, handed>>
    BY <1>4 DEF WriteCb, client, pool
  <2> QED
    BY <1>1, <2>1, SendStream
<1> QED
  BY <1>2, <1>3, <1>4, PickOnce, RunTaskOnce, WorkerOnce
  DEF Next, Loop, Ask, Deliver, Close, OnMsg, Read, ReadAgain, ReadEnd, EndPick,
      vars, client, net, out, pool

THEOREM ReplyInvAlways == Spec => [](TypeOK /\ ReplyInv)
<1>1. Init => TypeOK /\ ReplyInv
  BY InitTypes, ReplyInit
<1>2. TypeOK /\ ReplyInv /\ [Next]_vars => (TypeOK /\ ReplyInv)'
  BY NextTypes, ReplyNext
<1> QED
  BY <1>1, <1>2, PTL DEF Spec

\* Whatever the send buffer takes, the client is never given a part of a reply
\* twice, nor one that does not follow the part before it.
THEOREM RepliesArriveAsPrefixes == Spec => []RepliesArePrefixes
<1>1. TypeOK /\ ReplyInv => RepliesArePrefixes
  <2> SUFFICES ASSUME TypeOK, ReplyInv PROVE RepliesArePrefixes
    OBVIOUS
  <2>1. DOMAIN Stream = 1..Len(Stream)
    BY StreamType
  <2>2. Stream = received \o sockbuf \o outbuf
    BY DEF Stream
  <2>3. Proper(Stream)
    BY DEF ReplyInv
  <2> HIDE DEF Stream
  <2>4. \A p \in DOMAIN Stream : Stream[p] # Filler =>
            /\ \A q \in DOMAIN Stream : q # p => Stream[q] # Stream[p]
            /\ Stream[p][2] > 1 => p > 1 /\ Stream[p - 1] = <<Stream[p][1], Stream[p][2] - 1>>
    BY <2>1, <2>3 DEF Proper
  <2> QED
    BY <2>2, <2>4 DEF RepliesArePrefixes
<1> QED
  BY <1>1, ReplyInvAlways, PTL

-----------------------------------------------------------------------------
(* The input buffer *)

\* B are places where s can be cut into pieces as long as their first cells say.
Cuts(s, B) ==
    /\ B \subseteq 0..Len(s)
    /\ 0 \in B /\ Len(s) \in B
    /\ \A b \in B : b # Len(s) => b + LenOf(s[b + 1]) + 1 \in B

Chunked(s) == \E B : Cuts(s, B)

\* on_msg() appends pieces of that kind, so that picking leaves none behind.
ChunkInv ==
    /\ Chunked(inbuf)
    /\ lpc = "wait" /\ ~disconn => inbuf = <<>>
    /\ lpc # "wait" => ~disconn

LEMMA EmptyIsChunked == Chunked(<<>>)
<1>1. Cuts(<<>>, {0})
  BY DEF Cuts
<1> QED
  BY <1>1 DEF Chunked

LEMMA ChunkJoin ==
    ASSUME NEW s \in Seq(Cells), NEW t \in Seq(Cells), Chunked(s), t # <<>>,
           LenOf(t[1]) \in Nat, Len(t) = LenOf(t[1]) + 1
    PROVE  Chunked(s \o t)
<1> DEFINE st == s \o t
<1>1. Len(s) \in Nat /\ Len(t) \in Nat /\ 1 \in 1..Len(t)
  OBVIOUS
<1>2. /\ Len(st) = Len(s) + Len(t) /\ \A k \in 1..Len(s) : st[k] = s[k]
      /\ st[Len(s) + 1] = t[1]
  BY <1>1, Joined
<1> HIDE DEF st
<1>3. PICK B : Cuts(s, B)
  BY DEF Chunked
<1> DEFINE C == B \cup {Len(st)}
<1>4. C \subseteq 0..Len(st) /\ 0 \in C /\ Len(st) \in C
  <2>1. B \subseteq 0..Len(s) /\ 0 \in B
    BY <1>3 DEF Cuts
  <2>2. 0..Len(s) \subseteq 0..Len(st) /\ Len(st) \in 0..Len(st)
    BY <1>1, <1>2
  <2> QED
    BY <2>1, <2>2
<1>5. ASSUME NEW b \in C, b # Len(st) PROVE b + LenOf(st[b + 1]) + 1 \in C
  <2>1. b \in B /\ b \in 0..Len(s)
    BY <1>3, <1>5 DEF Cuts
  <2>2. CASE b = Len(s)
    <3>1. b + LenOf(st[b + 1]) + 1 = Len(st)
      BY <1>1, <1>2, <2>2
    <3> QED
      BY <3>1
  <2>3. CASE b # Len(s)
    <3>1. b + 1 \in 1..Len(s)
      BY <1>1, <2>1, <2>3
    <3>2. st[b + 1] = s[b + 1]
      BY <1>2, <3>1
    <3>3. b + LenOf(s[b + 1]) + 1 \in B
      BY <1>3, <2>1, <2>3 DEF Cuts
    <3> QED
      BY <3>2, <3>3
  <2> QED
    BY <2>2, <2>3
<1>6. Cuts(st, C)
  BY <1>4, <1>5 DEF Cuts
<1> QED
  BY <1>6 DEF Chunked, st

\* The first piece is whole, and what is behind it is in pieces again.
LEMMA ChunkRest ==
    ASSUME TypeOK, Chunked(inbuf), inbuf # <<>>
    PROVE  Whole /\ Chunked(Rest)
<1> DEFINE len == LenOf(inbuf[1])
<1>1. inbuf \in Seq(Cells) /\ Len(inbuf) \in Nat /\ Len(inbuf) # 0
  BY DEF TypeOK
<1>2. PICK B : Cuts(inbuf, B)
  BY DEF Chunked
<1>3. 0 + LenOf(inbuf[0 + 1]) + 1 \in B /\ B \subseteq 0..Len(inbuf)
  BY <1>1, <1>2 DEF Cuts
<1>4. len \in Nat
  <2>1. inbuf[1] \in Cells
    BY <1>1
  <2> QED
    BY <2>1, LenOfType DEF TypeOK
<1>5. len + 1 \in B
  BY <1>3, <1>4
<1>6. Whole
  BY <1>3, <1>4, <1>5 DEF Whole
<1>7. /\ Len(Rest) = Len(inbuf) - (len + 1)
      /\ \A k \in 1..Len(inbuf) - (len + 1) : Rest[k] = inbuf[len + 1 + k]
      /\ Len(inbuf) >= len + 1
  BY <1>6, MessageType
<1> HIDE DEF len
<1> DEFINE C == {b \in 0..Len(Rest) : len + 1 + b \in B}
<1>8. C \subseteq 0..Len(Rest) /\ 0 \in C /\ Len(Rest) \in C
  BY <1>1, <1>2, <1>4, <1>5, <1>7 DEF Cuts
<1>9. ASSUME NEW b \in C, b # Len(Rest) PROVE b + LenOf(Rest[b + 1]) + 1 \in C
  <2>1. b \in Nat /\ b < Len(Rest) /\ len + 1 + b \in B /\ Len(Rest) \in Nat
    <3>1. Len(Rest) \in Nat
      BY <1>1, <1>4, <1>7
    <3>2. b \in 0..Len(Rest) /\ len + 1 + b \in B
      BY <1>9
    <3> QED
      BY <1>9, <3>1, <3>2
  <2>2. Rest[b + 1] = inbuf[len + 1 + (b + 1)] /\ len + 1 + (b + 1) = (len + 1 + b) + 1
    BY <1>1, <1>4, <1>7, <2>1
  <2>3. len + 1 + b # Len(inbuf) /\ len + 1 + (b + 1) \in 1..Len(inbuf)
    BY <1>1, <1>4, <1>7, <2>1
  <2> DEFINE more == LenOf(Rest[b + 1])
  <2>4. more \in Nat
    <3>1. inbuf[len + 1 + (b + 1)] \in Cells
      BY <1>1, <2>3
    <3> QED
      BY <2>2, <3>1, LenOfType DEF TypeOK
  <2>5. (len + 1 + b) + more + 1 \in B
    BY <1>2, <2>1, <2>2, <2>3 DEF Cuts
  <2> HIDE DEF more
  <2>6. (len + 1 + b) + more + 1 \in 0..Len(inbuf)
    BY <1>3, <2>5
  <2>7. (len + 1 + b) + more + 1 = len + 1 + (b + more + 1)
    BY <1>4, <2>1, <2>4
  <2>8. b + more + 1 \in 0..Len(Rest)
    BY <1>1, <1>4, <1>7, <2>1, <2>4, <2>6
  <2>9. len + 1 + (b + more + 1) \in B
    BY <2>5, <2>7
  <2> QED
    BY <2>8, <2>9 DEF more
<1>10. Cuts(Rest, C)
  BY <1>8, <1>9 DEF Cuts
<1> QED
  BY <1>6, <1>10 DEF Chunked

LEMMA ChunkInit == Init => ChunkInv
BY EmptyIsChunked DEF Init, ChunkInv

LEMMA ChunkNext == TypeOK /\ ChunkInv /\ [Next]_vars => ChunkInv'
<1> SUFFICES ASSUME TypeOK, ChunkInv, [Next]_vars PROVE ChunkInv'
  OBVIOUS
<1>0. inbuf \in Seq(Cells) /\ inq \in Seq(Cells) /\ env.value \in {1, Cap}
  BY DEF TypeOK
<1>1. UNCHANGED env
  BY DEF Next, Loop, Worker, Ask, Deliver, Recv, Close, OnMsg, Read, ReadAgain, ReadEnd, PickMsg,
     EndPick, RunTask, WriteCb, TakeJob, CheckConn, Post, vars
<1>2. \A cell : LenOf(cell)' = LenOf(cell)
  BY <1>1 DEF LenOf
<1>3. ASSUME NEW s, s = inbuf', Chunked(s) PROVE Chunked(inbuf)'
  <2>1. PICK B : Cuts(s, B)
    BY <1>3 DEF Chunked
  <2>2. Cuts(inbuf, B)'
    BY <1>2, <1>3, <2>1 DEF Cuts
  <2> QED
    BY <2>2 DEF Chunked
<1>4. CASE UNCHANGED <<inbuf, lpc, disconn>>
  BY <1>3, <1>4 DEF ChunkInv
<1>5. CASE OnMsg
  BY <1>3, <1>5 DEF ChunkInv, OnMsg
<1>6. CASE Read
  <2> DEFINE n == IF Len(inq) < Cap THEN Len(inq) ELSE Cap
             read == SubSeq(inq, 1, n)
  <2>1. Len(inq) \in Nat /\ inq # <<>>
    BY <1>0, <1>6 DEF Read
  <2>2. n \in Nat \ {0} /\ n <= Len(inq)
    BY <1>0, <2>1, Lengths
  <2>3. /\ inbuf' \in {inbuf, inbuf \o Taken(read)}
        /\ lpc = "read" /\ UNCHANGED lpc /\ UNCHANGED disconn
    BY <1>6 DEF Read, LoopAt
  <2> HIDE DEF n
  <2>4. read \in Seq(Cells) /\ Len(read) = n + 1 - 1
    BY <1>0, <2>2, Slice
  <2> HIDE DEF read
  <2>5. read # <<>> /\ Len(read) \in Nat /\ 1 <= Len(read)
    BY <2>2, <2>4
  <2>6. /\ LenOf(read[1]) \in Nat /\ Taken(read) \in Seq(Cells) /\ Len(Taken(read)) = LenOf(read[1]) + 1
        /\ \A k \in 1..LenOf(read[1]) + 1 : Taken(read)[k] = IF k <= Len(read) THEN read[k] ELSE Filler
    BY <1>0, <2>4, <2>5, TakenType
  <2>7. Taken(read)[1] = read[1] /\ Taken(read) # <<>>
    BY <2>5, <2>6
  <2>8. Chunked(inbuf \o Taken(read))
    BY <1>0, <2>6, <2>7, ChunkJoin DEF ChunkInv
  <2>9. Chunked(inbuf)'
    BY <1>3, <2>3, <2>8 DEF ChunkInv
  <2> QED
    BY <2>3, <2>9 DEF ChunkInv
<1>7. CASE ReadAgain
  BY <1>3, <1>7 DEF ChunkInv, ReadAgain, LoopAt
<1>8. CASE ReadEnd
  BY <1>3, <1>8 DEF ChunkInv, ReadEnd, LoopAt
<1>9. CASE PickMsg
  <2>1. inbuf # <<>> /\ inbuf' = Rest /\ lpc = "pick" /\ UNCHANGED lpc /\ UNCHANGED disconn
    BY <1>9 DEF PickMsg, Whole, LoopAt
  <2>2. Chunked(Rest)
    BY <2>1, ChunkRest DEF ChunkInv
  <2>3. Chunked(inbuf)'
    BY <1>3, <2>1, <2>2
  <2> QED
    BY <2>1, <2>3 DEF ChunkInv
<1>10. CASE EndPick
  <2>1. inbuf = <<>>
    BY <1>10, ChunkRest DEF EndPick, ChunkInv
  <2> QED
    BY <1>3, <1>10, <2>1, EmptyIsChunked DEF ChunkInv, EndPick
<1> QED
  BY <1>4, <1>5, <1>6, <1>7, <1>8, <1>9, <1>10
  DEF Next, Loop, Worker, Ask, Deliver, Recv, Close, RunTask, WriteCb, TakeJob, CheckConn, Post, vars
-----------------------------------------------------------------------------
(* A client that waits, on a network that does not split *)

Idle      == \A w \in Workers : job[w] = None
NoInput   == wire = <<>> /\ inq = <<>> /\ inbuf = <<>>
NoOutput  == outbuf = <<>> /\ sockbuf = <<>>
NothingToDo == jobs = <<>> /\ Idle /\ tasks = <<>>

\* s is n cells of the reply to request i, as far as these were copied.
Answers(s, i, n, copied) ==
    /\ Len(s) = n
    /\ \A k \in 1..n : ~copied \/ k <= CopyLen => s[k] = <<i, k>>

\* No request is unanswered, or its reply was dropped with the connection.
AtRest ==
    /\ NoInput /\ NothingToDo /\ NoOutput
    /\ Len(handed) = asked /\ (Len(answers) = asked \/ disconn)

\* The last request is on its way to pick_msg().
UnderWay ==
    /\ asked > 0 /\ Len(handed) = asked - 1 /\ Len(answers) = asked - 1
    /\ NothingToDo /\ NoOutput
    /\ \/ wire = Frame(asked) /\ inq = <<>> /\ inbuf = <<>>
       \/ wire = <<>> /\ inq = Frame(asked) /\ inbuf = <<>>
       \/ wire = <<>> /\ inq = <<>> /\ inbuf = Frame(asked)

\* Where its reply may be.
InPool ==
    /\ env.pooled /\ NoOutput
    /\ \/ jobs = <<asked>> /\ Idle /\ tasks = <<>>
       \/ /\ jobs = <<>> /\ tasks = <<>>
          /\ \E w \in Workers : job[w] = asked /\ \A v \in Workers \ {w} : job[v] = None
       \/ jobs = <<>> /\ Idle /\ Len(tasks) = 1 /\ Answers(tasks[1], asked, ReplyLen[asked], env.pooled)

InOutput ==
    /\ NothingToDo
    /\ \/ Answers(outbuf, asked, ReplyLen[asked], env.pooled) /\ sockbuf = <<>>
       \/ outbuf = <<>> /\ Answers(sockbuf, asked, Sendable(asked), env.pooled)

BeingAnswered ==
    /\ asked > 0 /\ NoInput /\ Len(handed) = asked /\ Len(answers) = asked - 1
    /\ InPool \/ InOutput

\* The last request or its reply is in one place.
Phases ==
    /\ AtRest \/ UnderWay \/ BeingAnswered
    /\ \A i \in 1..Len(handed) : handed[i] = Body(i)

Answered ==
    /\ Len(answers) <= asked
    /\ \A i \in 1..Len(answers) : Answers(answers[i], i, Sendable(i), env.pooled)

OneByOneInv == OneByOne => (Running => Phases) /\ Answered

LEMMA OneFrame ==
    ASSUME NEW i \in Requests
    PROVE  /\ Frame(i) \in Seq(Cells) /\ Frame(i) # <<>> /\ Len(Frame(i)) \in Nat
           /\ Len(Frame(i)) <= Cap
           /\ LenOf(Frame(i)[1]) + 1 = Len(Frame(i))
           /\ <<>> \o Frame(i) = Frame(i)
           /\ SubSeq(Frame(i), 1, Len(Frame(i))) = Frame(i)
           /\ SubSeq(Frame(i), Len(Frame(i)) + 1, Len(Frame(i))) = <<>>
           /\ Taken(Frame(i)) = Frame(i)
           /\ \A n \in 1..Len(Frame(i)) - 1 : Frame(i)[n + 1][2] # 0
<1> DEFINE f == Frame(i)
<1>1. BodyLen[i] \in Nat \ {0} /\ BodyLen[i] < Cap /\ Cap \in Nat /\ i # 0
  BY Lengths DEF Requests
<1>2. f \in Seq(Cells) /\ Len(f) = BodyLen[i] + 1 /\ \A k \in 1..BodyLen[i] + 1 : f[k] = <<i, k - 1>>
  BY FrameType
<1> HIDE DEF f
<1>3. f # <<>> /\ Len(f) \in Nat /\ Len(f) <= Cap
  BY <1>1, <1>2
<1>4. f[1] = <<i, 0>> /\ f[1] # Filler
  BY <1>1, <1>2 DEF Filler
<1>5. LenOf(f[1]) = BodyLen[i]
  BY <1>4 DEF LenOf
<1>6. SubSeq(f, 1, Len(f)) = f /\ SubSeq(f, Len(f) + 1, Len(f)) = <<>> /\ <<>> \o f = f
  <2>1. <<>> \o f = f
    BY <1>2, ConcatEmptySeq
  <2>2. /\ SubSeq(f, 1, Len(f)) \in Seq(Cells) /\ Len(SubSeq(f, 1, Len(f))) = Len(f) + 1 - 1
        /\ \A k \in 1..(Len(f) + 1 - 1) : SubSeq(f, 1, Len(f))[k] = f[1 - 1 + k]
    BY <1>2, <1>3, Slice
  <2>3. SubSeq(f, 1, Len(f)) = f
    BY <1>2, <1>3, <2>2, SeqEqual
  <2>4. /\ SubSeq(f, Len(f) + 1, Len(f)) \in Seq(Cells)
        /\ Len(SubSeq(f, Len(f) + 1, Len(f))) = Len(f) + 1 - (Len(f) + 1)
    BY <1>2, <1>3, Slice
  <2>5. SubSeq(f, Len(f) + 1, Len(f)) = <<>>
    BY <1>3, <2>4
  <2> QED
    BY <2>1, <2>3, <2>5
<1>7. Taken(f) = f
  <2>1. \A k \in 1..(LenOf(f[1]) + 1) : (IF k <= Len(f) THEN f[k] ELSE Filler) = f[k]
    BY <1>2, <1>5
  <2>2. Taken(f) = [k \in 1..(LenOf(f[1]) + 1) |-> f[k]]
    BY <2>1 DEF Taken
  <2>3. f = [k \in 1..Len(f) |-> f[k]]
    BY <1>2
  <2> QED
    BY <1>2, <1>5, <2>2, <2>3
<1>8. ASSUME NEW n \in 1..Len(f) - 1 PROVE f[n + 1][2] # 0
  <2>1. n + 1 \in 1..BodyLen[i] + 1 /\ (n + 1) - 1 = n /\ n # 0
    BY <1>1, <1>2
  <2>2. f[n + 1] = <<i, n>>
    BY <1>2, <2>1
  <2> QED
    BY <2>1, <2>2
<1> QED
  BY <1>2, <1>3, <1>5, <1>6, <1>7, <1>8 DEF f

\* What pick_msg() makes of a frame that is alone in the buffer.
LEMMA PickOne ==
    ASSUME TypeOK, Whole, NEW i \in Requests, inbuf = Frame(i)
    PROVE  Message = Body(i) /\ Rest = <<>>
<1>1. BodyLen[i] \in Nat \ {0} /\ Len(inbuf) = BodyLen[i] + 1 /\ LenOf(inbuf[1]) + 1 = Len(inbuf)
  BY Lengths, FrameType, OneFrame
<1>2. \A k \in 1..BodyLen[i] + 1 : inbuf[k] = <<i, k - 1>>
  BY FrameType
<1>3. /\ LenOf(inbuf[1]) \in Nat
      /\ Message \in Seq(Cells) /\ Len(Message) = LenOf(inbuf[1])
      /\ \A k \in 1..LenOf(inbuf[1]) : Message[k] = inbuf[k + 1]
      /\ Rest \in Seq(Cells) /\ Len(Rest) = Len(inbuf) - (LenOf(inbuf[1]) + 1)
  BY MessageType
<1>4. LenOf(inbuf[1]) = BodyLen[i]
  BY <1>1, <1>3
<1>5. Rest = <<>>
  BY <1>1, <1>3
<1>6. ASSUME NEW k \in 1..BodyLen[i] PROVE Message[k] = <<i, k>>
  <2>1. k + 1 \in 1..BodyLen[i] + 1 /\ (k + 1) - 1 = k
    BY <1>1
  <2> QED
    BY <1>2, <1>3, <1>4, <2>1
<1>7. Message = Body(i)
  <2>1. /\ Body(i) \in Seq(Cells) /\ Len(Body(i)) = BodyLen[i]
        /\ \A k \in 1..BodyLen[i] : Body(i)[k] = <<i, k>>
    BY BodyType
  <2>2. Message \in Seq(Cells) /\ Len(Message) = Len(Body(i))
    BY <1>3, <1>4, <2>1
  <2>3. \A k \in 1..Len(Message) : Message[k] = Body(i)[k]
    BY <1>6, <2>1, <2>2
  <2> QED
    BY <2>1, <2>2, <2>3, SeqEqual
<1> QED
  BY <1>5, <1>7

LEMMA SizeOfReply ==
    ASSUME NEW i \in Requests
    PROVE  Size(Body(i)) = ReplyLen[i]
<1>1. ASSUME NEW j \in Requests, Body(j) = Body(i) PROVE j = i
  <2>1. Body(j)[1] = <<j, 1>> /\ Body(i)[1] = <<i, 1>>
    BY Lengths, BodyType
  <2> QED
    BY <1>1, <2>1
<1>2. (CHOOSE j \in Requests : Body(i) = Body(j)) = i
  BY <1>1
<1> QED
  BY <1>2 DEF Size

LEMMA RepliesAnswer ==
    ASSUME NEW i \in Requests
    PROVE  /\ Answers(Reply(i, Body(i)), i, ReplyLen[i], FALSE)
           /\ Answers(Copy(Reply(i, Body(i))), i, ReplyLen[i], TRUE)
<1>1. i \in Nat
  BY DEF Requests
<1>2. Size(Body(i)) = ReplyLen[i]
  BY SizeOfReply
<1>3. Answers(Reply(i, Body(i)), i, ReplyLen[i], FALSE)
  BY <1>1, <1>2, ReplyType DEF Answers
<1>4. Answers(Copy(Reply(i, Body(i))), i, ReplyLen[i], TRUE)
  BY <1>1, <1>2, CopyType DEF Answers
<1> QED
  BY <1>3, <1>4

\* One action at a time, in a state whose phase is known.
InPhase == TypeOK /\ OneByOne /\ Running /\ Phases

LEMMA PhaseFacts ==
    ASSUME InPhase
    PROVE  /\ asked \in Nat /\ (asked > 0 => asked \in Requests)
           /\ Len(handed) \in Nat /\ Len(answers) \in Nat
           /\ env.patient /\ ~env.split
           /\ wire # <<>> => UnderWay /\ wire = Frame(asked) /\ inq = <<>> /\ inbuf = <<>>
           /\ inq # <<>> => UnderWay /\ inq = Frame(asked) /\ wire = <<>> /\ inbuf = <<>>
           /\ inbuf # <<>> => UnderWay /\ inbuf = Frame(asked) /\ wire = <<>> /\ inq = <<>>
           /\ Len(answers) = asked => AtRest
<1>1. asked \in Nat /\ (asked > 0 => asked \in Requests)
  BY Lengths DEF InPhase, TypeOK, Requests
<1>2. Len(handed) \in Nat /\ Len(answers) \in Nat
  BY DEF InPhase, TypeOK
<1>3. env.patient /\ ~env.split
  BY DEF InPhase, OneByOne
<1>4. CASE AtRest
  BY <1>1, <1>2, <1>3, <1>4 DEF AtRest, NoInput
<1>5. CASE UnderWay
  BY <1>1, <1>2, <1>3, <1>5 DEF UnderWay
<1>6. CASE BeingAnswered
  BY <1>1, <1>2, <1>3, <1>6 DEF BeingAnswered, NoInput
<1> QED
  BY <1>4, <1>5, <1>6 DEF InPhase, Phases

LEMMA AskPhase == InPhase /\ Ask => Phases'
<1> SUFFICES ASSUME InPhase, Ask PROVE Phases'
  OBVIOUS
<1>1. /\ Len(answers) = asked /\ asked' = asked + 1 /\ wire' = wire \o Frame(asked + 1)
      /\ UNCHANGED <<env, answers, inq, inbuf, handed, jobs, job, tasks, outbuf, sockbuf>>
  BY PhaseFacts DEF Ask, out, pool
<1>2. AtRest /\ asked \in Nat
  BY <1>1, PhaseFacts
<1>3. asked + 1 \in Requests
  BY <1>2, Lengths DEF InPhase, TypeOK, Ask, Requests
<1>4. wire' = Frame(asked')
  BY <1>1, <1>2, <1>3, OneFrame DEF AtRest, NoInput
<1>5. UnderWay'
  BY <1>1, <1>2, <1>4 DEF AtRest, NoInput, UnderWay, NothingToDo, NoOutput, Idle
<1>6. \A i \in 1..Len(handed') : handed'[i] = Body(i)
  BY <1>1 DEF InPhase, Phases
<1> QED
  BY <1>5, <1>6 DEF Phases

LEMMA DeliverPhase == InPhase /\ Deliver => Phases'
<1> SUFFICES ASSUME InPhase, Deliver PROVE Phases'
  OBVIOUS
<1>1. UNCHANGED <<env, asked, answers, inbuf, handed, jobs, job, tasks, outbuf, sockbuf>>
  BY DEF Deliver, client, out, pool
<1>2. PICK n \in Arrivals : inq' = inq \o SubSeq(wire, 1, n) /\ wire' = SubSeq(wire, n + 1, Len(wire))
  BY DEF Deliver
<1>3. n \in 1..Len(wire) /\ (n = Len(wire) \/ wire[n + 1][2] = 0)
  BY PhaseFacts DEF Arrivals
<1>4. wire # <<>>
  BY <1>3
<1>5. UnderWay /\ wire = Frame(asked) /\ inq = <<>> /\ inbuf = <<>> /\ asked \in Requests
  BY <1>4, PhaseFacts DEF UnderWay
<1>6. n = Len(wire)
  <2>1. n # Len(wire) => n \in 1..Len(wire) - 1
    BY <1>3, <1>5, OneFrame
  <2> QED
    BY <1>3, <1>5, <2>1, OneFrame
<1>7. inq' = Frame(asked) /\ wire' = <<>>
  BY <1>2, <1>5, <1>6, OneFrame
<1>8. UnderWay'
  BY <1>1, <1>5, <1>7 DEF UnderWay, NothingToDo, NoOutput, Idle
<1>9. \A i \in 1..Len(handed') : handed'[i] = Body(i)
  BY <1>1 DEF InPhase, Phases
<1> QED
  BY <1>8, <1>9 DEF Phases

LEMMA ReadPhase == InPhase /\ Read => Phases'
<1> SUFFICES ASSUME InPhase, Read PROVE Phases'
  OBVIOUS
<1>1. UNCHANGED <<env, asked, answers, wire, handed, jobs, job, tasks, outbuf, sockbuf>>
  BY DEF Read, client, out, pool
<1>2. UnderWay /\ inq = Frame(asked) /\ wire = <<>> /\ inbuf = <<>> /\ asked \in Requests
  BY PhaseFacts DEF Read, UnderWay
<1> DEFINE n == IF Len(inq) < Cap THEN Len(inq) ELSE Cap
           read == SubSeq(inq, 1, n)
<1>3. /\ inq' = SubSeq(inq, n + 1, Len(inq))
      /\ LenOf(read[1]) + 1 > Cap \/ inbuf' = inbuf \o Taken(read)
  BY DEF Read
<1>4. n = Len(inq)
  BY <1>2, OneFrame, Lengths
<1> HIDE DEF n
<1>5. read = inq
  BY <1>2, <1>4, OneFrame
<1> HIDE DEF read
<1>6. ~(LenOf(read[1]) + 1 > Cap)
  BY <1>2, <1>5, OneFrame, Lengths
<1>7. inbuf' = Frame(asked) /\ inq' = <<>>
  BY <1>2, <1>3, <1>4, <1>5, <1>6, OneFrame
<1>8. UnderWay'
  BY <1>1, <1>2, <1>7 DEF UnderWay, NothingToDo, NoOutput, Idle
<1>9. \A i \in 1..Len(handed') : handed'[i] = Body(i)
  BY <1>1 DEF InPhase, Phases
<1> QED
  BY <1>8, <1>9 DEF Phases

\* A client's answer is put into the output of the connection.
LEMMA OutputPhase ==
    ASSUME InPhase, NEW reply \in Seq(Parts), SendInLoop(reply), Running', NoOutput,
           Answers(reply, asked, ReplyLen[asked], env.pooled)
    PROVE  Answers(outbuf', asked, ReplyLen[asked], env.pooled)
<1>1. ~disconn
  BY DEF SendInLoop, Running
<1>2. outbuf' = <<>> \o reply
  BY <1>1 DEF SendInLoop, NoOutput
<1>3. outbuf' = reply
  BY <1>2, ConcatEmptySeq
<1> QED
  BY <1>3

LEMMA PickPhase == InPhase /\ PickMsg /\ Running' => Phases'
<1> SUFFICES ASSUME InPhase, PickMsg, Running' PROVE Phases'
  OBVIOUS
<1>1. /\ Whole /\ inbuf # <<>> /\ inbuf' = Rest /\ handed' = Append(handed, Message)
      /\ UNCHANGED <<env, asked, answers, wire, inq, job, tasks, sockbuf>>
  BY DEF PickMsg, Whole, client, net
<1>2. UnderWay /\ inbuf = Frame(asked) /\ wire = <<>> /\ inq = <<>> /\ asked \in Requests /\ asked \in Nat
  BY <1>1, PhaseFacts DEF UnderWay
<1>3. Message = Body(asked) /\ Rest = <<>> /\ Message \in Seq(Cells)
  BY <1>1, <1>2, PickOne, MessageType DEF InPhase
<1>4. /\ Len(handed) \in Nat /\ Len(handed) + 1 = asked /\ Len(handed') = asked
      /\ handed'[asked] = Body(asked) /\ \A j \in 1..Len(handed) : handed'[j] = handed[j]
  BY <1>1, <1>2, <1>3, HandedType, PhaseFacts DEF InPhase, UnderWay
<1>5. \A i \in 1..Len(handed') : handed'[i] = Body(i)
  <2> SUFFICES ASSUME NEW i \in 1..Len(handed') PROVE handed'[i] = Body(i)
    OBVIOUS
  <2>1. i = asked \/ i \in 1..Len(handed)
    BY <1>4
  <2> QED
    BY <1>4, <2>1 DEF InPhase, Phases
<1>6. NothingToDo /\ NoOutput /\ NoInput'
  BY <1>1, <1>2, <1>3 DEF UnderWay, NoInput
<1>7. (InPool \/ InOutput)'
  <2>1. CASE env.pooled
    <3>1. jobs' = Append(jobs, asked) /\ UNCHANGED outbuf
      BY <1>4, <2>1 DEF PickMsg
    <3>2. jobs' = <<asked>>
      BY <1>6, <3>1 DEF NothingToDo
    <3>3. InPool'
      BY <1>1, <1>6, <2>1, <3>1, <3>2 DEF InPool, NothingToDo, NoOutput, Idle
    <3> QED
      BY <3>3
  <2>2. CASE ~env.pooled
    <3>1. SendInLoop(Reply(asked, Body(asked))) /\ UNCHANGED jobs
      BY <1>3, <1>4, <2>2 DEF PickMsg
    <3>2. Reply(asked, Body(asked)) \in Seq(Parts)
      BY <1>2, ReplyType
    <3>3. Answers(Reply(asked, Body(asked)), asked, ReplyLen[asked], FALSE)
      BY <1>2, RepliesAnswer
    <3>4. Answers(Reply(asked, Body(asked)), asked, ReplyLen[asked], env.pooled)
      BY <2>2, <3>3 DEF Answers
    <3>5. Answers(outbuf', asked, ReplyLen[asked], env.pooled)
      BY <1>6, <3>1, <3>2, <3>4, OutputPhase
    <3>6. NothingToDo' /\ sockbuf' = <<>>
      BY <1>1, <1>6, <3>1 DEF NothingToDo, Idle, NoOutput
    <3>7. InOutput'
      BY <1>1, <3>5, <3>6 DEF InOutput
    <3> QED
      BY <3>7
  <2> QED
    BY <2>1, <2>2
<1>8. BeingAnswered'
  BY <1>1, <1>2, <1>4, <1>6, <1>7 DEF BeingAnswered, UnderWay
<1> QED
  BY <1>5, <1>8 DEF Phases

\* The reply is where there is something to do.
LEMMA ReplyFacts ==
    ASSUME InPhase
    PROVE  /\ jobs # <<>> => /\ BeingAnswered /\ env.pooled /\ NoOutput
                             /\ jobs = <<asked>> /\ Idle /\ tasks = <<>>
           /\ \A w \in Workers : job[w] # None =>
                 /\ BeingAnswered /\ env.pooled /\ NoOutput /\ jobs = <<>> /\ tasks = <<>>
                 /\ job[w] = asked /\ \A v \in Workers \ {w} : job[v] = None
           /\ tasks # <<>> => /\ BeingAnswered /\ env.pooled /\ NoOutput /\ jobs = <<>> /\ Idle
                              /\ Len(tasks) = 1
                              /\ Answers(tasks[1], asked, ReplyLen[asked], env.pooled)
           /\ outbuf # <<>> => /\ BeingAnswered /\ NothingToDo /\ sockbuf = <<>>
                               /\ Answers(outbuf, asked, ReplyLen[asked], env.pooled)
           /\ sockbuf # <<>> => /\ BeingAnswered /\ NothingToDo /\ outbuf = <<>>
                                /\ Answers(sockbuf, asked, Sendable(asked), env.pooled)
<1>1. CASE NothingToDo /\ NoOutput
  BY <1>1 DEF NothingToDo, NoOutput, Idle
<1>2. CASE BeingAnswered /\ InPool
  BY <1>2 DEF InPool, NoOutput, Idle
<1>3. CASE BeingAnswered /\ InOutput
  BY <1>3 DEF InOutput, NothingToDo, Idle
<1> QED
  BY <1>1, <1>2, <1>3 DEF InPhase, Phases, AtRest, UnderWay, BeingAnswered

LEMMA WorkerHasJob ==
    ASSUME TypeOK, NEW w \in Workers, wpc[w] # "idle"
    PROVE  job[w] # None
<1>1. job[w] \in 1..Len(handed)
  BY DEF TypeOK
<1>2. job[w] \in Nat
  BY <1>1
<1> QED
  BY <1>2, NoneAssumption

LEMMA WorkerPhase ==
    ASSUME InPhase, NEW w \in Workers, Worker(w)
    PROVE  Phases'
<1>1. UNCHANGED <<env, asked, answers, wire, inq, inbuf, handed, outbuf, sockbuf, disconn>>
  BY DEF Worker, TakeJob, CheckConn, Post, client, net, out
<1>2. \A i \in 1..Len(handed') : handed'[i] = Body(i)
  BY <1>1 DEF InPhase, Phases
<1>3. job \in [Workers -> Nat \cup {None}]
  BY DEF InPhase, TypeOK
<1>4. ASSUME BeingAnswered, InPool' PROVE Phases'
  <2>1. BeingAnswered'
    BY <1>1, <1>4 DEF BeingAnswered, NoInput
  <2> QED
    BY <1>2, <2>1 DEF Phases
<1>5. CASE TakeJob(w)
  <2>1. /\ jobs # <<>> /\ jobs' = Tail(jobs) /\ UNCHANGED tasks
        /\ job' = [job EXCEPT ![w] = Head(jobs)]
    BY <1>5 DEF TakeJob
  <2>2. BeingAnswered /\ env.pooled /\ NoOutput /\ jobs = <<asked>> /\ Idle /\ tasks = <<>>
    BY <2>1, ReplyFacts
  <2>3. jobs' = <<>> /\ Head(jobs) = asked
    BY <2>1, <2>2
  <2>4. job'[w] = asked /\ \A v \in Workers \ {w} : job'[v] = None
    BY <1>3, <2>1, <2>2, <2>3 DEF Idle
  <2>5. InPool'
    BY <1>1, <2>1, <2>2, <2>3, <2>4 DEF InPool, NoOutput
  <2> QED
    BY <1>4, <2>2, <2>5
<1>6. CASE CheckConn(w)
  <2>1. /\ wpc[w] = "send" /\ UNCHANGED jobs /\ UNCHANGED tasks
        /\ job' = [job EXCEPT ![w] = IF disconn THEN None ELSE @]
    BY <1>6 DEF CheckConn, WorkerAt
  <2>2. job[w] # None
    BY <2>1, WorkerHasJob DEF InPhase
  <2>3. /\ BeingAnswered /\ env.pooled /\ NoOutput /\ jobs = <<>> /\ tasks = <<>>
        /\ job[w] = asked /\ \A v \in Workers \ {w} : job[v] = None
    BY <2>2, ReplyFacts
  <2>4. CASE disconn
    <3>1. Idle'
      BY <1>3, <2>1, <2>3, <2>4 DEF Idle
    <3>2. AtRest'
      BY <1>1, <2>1, <2>3, <2>4, <3>1
      DEF AtRest, BeingAnswered, NoInput, NothingToDo, NoOutput
    <3> QED
      BY <1>2, <3>2 DEF Phases
  <2>5. CASE ~disconn
    <3>1. job' = job
      BY <1>3, <2>1, <2>5
    <3>2. InPool'
      BY <1>1, <2>1, <2>3, <3>1 DEF InPool, NoOutput
    <3> QED
      BY <1>4, <2>3, <3>2
  <2> QED
    BY <2>4, <2>5
<1>7. CASE Post(w)
  <2>1. /\ wpc[w] = "copy" /\ UNCHANGED jobs
        /\ tasks' = Append(tasks, Copy(Reply(job[w], handed[job[w]])))
        /\ job' = [job EXCEPT ![w] = None]
    BY <1>7 DEF Post, WorkerAt
  <2>2. job[w] # None
    BY <2>1, WorkerHasJob DEF InPhase
  <2>3. /\ BeingAnswered /\ env.pooled /\ NoOutput /\ jobs = <<>> /\ tasks = <<>>
        /\ job[w] = asked /\ \A v \in Workers \ {w} : job[v] = None
    BY <2>2, ReplyFacts
  <2>4. Idle'
    BY <1>3, <2>1, <2>3 DEF Idle
  <2>5. asked \in Requests /\ asked \in Nat /\ handed[asked] = Body(asked)
    <3>1. asked \in Requests /\ asked \in Nat
      BY <2>3, PhaseFacts DEF BeingAnswered
    <3>2. asked \in 1..Len(handed)
      BY <2>3, <3>1 DEF BeingAnswered, Requests
    <3> QED
      BY <3>1, <3>2 DEF InPhase, Phases
  <2> DEFINE reply == Copy(Reply(asked, Body(asked)))
  <2>6. Answers(reply, asked, ReplyLen[asked], TRUE)
    BY <2>5, RepliesAnswer
  <2>7. tasks' = Append(<<>>, reply)
    BY <2>1, <2>3, <2>5
  <2> HIDE DEF reply
  <2>8. Len(tasks') = 1 /\ tasks'[1] = reply
    BY <2>7
  <2>9. Answers(tasks'[1], asked, ReplyLen[asked], env.pooled)
    BY <2>3, <2>6, <2>8 DEF Answers
  <2>10. InPool'
    BY <1>1, <2>1, <2>3, <2>4, <2>8, <2>9 DEF InPool, NoOutput
  <2> QED
    BY <1>4, <2>3, <2>10
<1> QED
  BY <1>5, <1>6, <1>7 DEF Worker

LEMMA RunTaskPhase == InPhase /\ RunTask /\ Running' => Phases'
<1> SUFFICES ASSUME InPhase, RunTask, Running' PROVE Phases'
  OBVIOUS
<1>1. /\ tasks # <<>> /\ SendInLoop(Head(tasks)) /\ tasks' = Tail(tasks)
      /\ UNCHANGED <<env, asked, answers, wire, inq, inbuf, handed, sockbuf, jobs, job>>
  BY DEF RunTask, client, net
<1>2. /\ BeingAnswered /\ env.pooled /\ NoOutput /\ jobs = <<>> /\ Idle /\ Len(tasks) = 1
      /\ Answers(tasks[1], asked, ReplyLen[asked], env.pooled)
  BY <1>1, ReplyFacts
<1>3. tasks \in Seq(Seq(Parts))
  BY DEF InPhase, TypeOK
<1>4. Head(tasks) = tasks[1] /\ tasks[1] \in Seq(Parts) /\ tasks' = <<>>
  BY <1>1, <1>2, <1>3
<1>5. Answers(outbuf', asked, ReplyLen[asked], env.pooled)
  BY <1>1, <1>2, <1>4, OutputPhase
<1>6. NothingToDo' /\ sockbuf' = <<>>
  BY <1>1, <1>2, <1>4 DEF NothingToDo, Idle, NoOutput
<1>7. InOutput'
  BY <1>1, <1>5, <1>6 DEF InOutput
<1>8. BeingAnswered'
  BY <1>1, <1>2, <1>7 DEF BeingAnswered, NoInput
<1>9. \A i \in 1..Len(handed') : handed'[i] = Body(i)
  BY <1>1 DEF InPhase, Phases
<1> QED
  BY <1>8, <1>9 DEF Phases

\* What does not move a request or its reply.
LEMMA SamePhase ==
    ASSUME InPhase, disconn => disconn',
           UNCHANGED <<env, asked, answers, wire, inq, inbuf, handed, jobs, job, tasks, outbuf, sockbuf>>
    PROVE  Phases'
<1>1. /\ NothingToDo' <=> NothingToDo
      /\ NoOutput' <=> NoOutput
      /\ NoInput' <=> NoInput
  BY DEF NothingToDo, Idle, NoOutput, NoInput
<1>2. AtRest => AtRest'
  BY <1>1 DEF AtRest
<1>3. UnderWay => UnderWay'
  BY <1>1 DEF UnderWay
<1>4. BeingAnswered => BeingAnswered'
  <2>1. InPool => InPool'
    BY <1>1 DEF InPool, Idle
  <2>2. InOutput => InOutput'
    BY <1>1 DEF InOutput
  <2> QED
    BY <1>1, <2>1, <2>2 DEF BeingAnswered
<1> QED
  BY <1>2, <1>3, <1>4 DEF InPhase, Phases

LEMMA WritePhase == InPhase /\ WriteCb => Phases'
<1> SUFFICES ASSUME InPhase, WriteCb PROVE Phases'
  OBVIOUS
<1>1. /\ Send /\ UNCHANGED <<env, asked, answers, wire, inq, inbuf, handed, jobs, job, tasks, disconn>>
  BY DEF WriteCb, client, net, pool
<1>2. sockbuf' = sockbuf \o SubSeq(outbuf, 1, Fitting) /\ outbuf' = <<>>
  BY <1>1 DEF Send, Fitting
<1>3. /\ sockbuf \in Seq(Parts) /\ outbuf \in Seq(Parts) /\ Len(outbuf) \in Nat
      /\ Fitting \in Nat /\ Fitting <= Len(outbuf) /\ Room = SndCap - Len(sockbuf) /\ Room \in Nat
  BY FittingType DEF InPhase, TypeOK
<1> DEFINE sent == SubSeq(outbuf, 1, Fitting)
<1>4. /\ sent \in Seq(Parts) /\ Len(sent) = Fitting + 1 - 1
      /\ \A k \in 1..(Fitting + 1 - 1) : sent[k] = outbuf[1 - 1 + k]
  BY <1>3, Slice
<1>5. sockbuf' = sockbuf \o sent
  BY <1>2
<1> HIDE DEF sent
<1>6. CASE outbuf = <<>>
  <2>1. sent = <<>>
    BY <1>3, <1>4, <1>6
  <2>2. sockbuf' = sockbuf
    BY <1>3, <1>5, <2>1, ConcatEmptySeq
  <2> QED
    BY <1>1, <1>2, <1>6, <2>2, SamePhase
<1>7. CASE outbuf # <<>>
  <2>1. /\ BeingAnswered /\ NothingToDo /\ sockbuf = <<>>
        /\ Answers(outbuf, asked, ReplyLen[asked], env.pooled)
    BY <1>7, ReplyFacts
  <2>2. asked \in Requests
    BY <2>1, PhaseFacts DEF BeingAnswered
  <2>3. ReplyLen[asked] \in Nat /\ SndCap \in Nat /\ Len(outbuf) = ReplyLen[asked] /\ Room = SndCap
    BY <1>3, <2>1, <2>2, Lengths DEF Answers
  <2>4. Fitting = Sendable(asked) /\ Sendable(asked) <= ReplyLen[asked]
    BY <2>3 DEF Fitting, Sendable
  <2>5. sockbuf' = sent
    BY <1>4, <1>5, <2>1, ConcatEmptySeq
  <2>6. Answers(sent, asked, Sendable(asked), env.pooled)
    BY <1>3, <1>4, <2>1, <2>3, <2>4 DEF Answers
  <2>7. NothingToDo'
    BY <1>1, <2>1 DEF NothingToDo, Idle
  <2>8. InOutput'
    BY <1>1, <1>2, <2>5, <2>6, <2>7 DEF InOutput
  <2>9. BeingAnswered'
    BY <1>1, <2>1, <2>8 DEF BeingAnswered, NoInput
  <2>10. \A i \in 1..Len(handed') : handed'[i] = Body(i)
    BY <1>1 DEF InPhase, Phases
  <2> QED
    BY <2>9, <2>10 DEF Phases
<1> QED
  BY <1>6, <1>7

LEMMA RecvPhase ==
    ASSUME InPhase, Recv
    PROVE  /\ Phases' /\ asked > 0 /\ asked \in Nat /\ Len(answers) + 1 = asked
           /\ answers' = Append(answers, sockbuf)
           /\ Answers(sockbuf, asked, Sendable(asked), env.pooled)
<1>1. UNCHANGED <<env, asked, wire, inq, inbuf, handed, jobs, job, tasks, outbuf, disconn>>
  BY DEF Recv, net, pool
<1>2. PICK n \in 1..Len(sockbuf) : /\ env.split \/ n = Len(sockbuf)
                                   /\ answers' = Append(answers, SubSeq(sockbuf, 1, n))
                                   /\ sockbuf' = SubSeq(sockbuf, n + 1, Len(sockbuf))
  BY DEF Recv
<1>3. n = Len(sockbuf) /\ sockbuf # <<>> /\ sockbuf \in Seq(Parts) /\ n \in Nat \ {0}
  BY <1>2, PhaseFacts DEF InPhase, TypeOK
<1>4. /\ BeingAnswered /\ NothingToDo /\ outbuf = <<>>
      /\ Answers(sockbuf, asked, Sendable(asked), env.pooled)
  BY <1>3, ReplyFacts
<1>5. SubSeq(sockbuf, 1, n) = sockbuf
  <2>1. /\ SubSeq(sockbuf, 1, n) \in Seq(Parts) /\ Len(SubSeq(sockbuf, 1, n)) = n + 1 - 1
        /\ \A k \in 1..(n + 1 - 1) : SubSeq(sockbuf, 1, n)[k] = sockbuf[1 - 1 + k]
    BY <1>3, Slice
  <2>2. /\ Len(SubSeq(sockbuf, 1, n)) = Len(sockbuf)
        /\ \A k \in 1..Len(SubSeq(sockbuf, 1, n)) : SubSeq(sockbuf, 1, n)[k] = sockbuf[k]
    BY <1>3, <2>1
  <2> QED
    BY <1>3, <2>1, <2>2, SeqEqual
<1>6. sockbuf' = <<>>
  <2>1. /\ SubSeq(sockbuf, n + 1, Len(sockbuf)) \in Seq(Parts)
        /\ Len(SubSeq(sockbuf, n + 1, Len(sockbuf))) = Len(sockbuf) + 1 - (n + 1)
    BY <1>3, Slice
  <2> QED
    BY <1>2, <1>3, <2>1
<1>7. answers' = Append(answers, sockbuf)
  BY <1>2, <1>5
<1>8. asked \in Nat /\ asked > 0 /\ Len(answers) \in Nat /\ Len(answers) + 1 = asked
  BY <1>4, PhaseFacts DEF BeingAnswered
<1>9. Len(answers') = asked
  BY <1>7, <1>8 DEF InPhase, TypeOK
<1>10. AtRest'
  BY <1>1, <1>4, <1>6, <1>9 DEF AtRest, BeingAnswered, NoInput, NothingToDo, Idle, NoOutput
<1>11. \A i \in 1..Len(handed') : handed'[i] = Body(i)
  BY <1>1 DEF InPhase, Phases
<1> QED
  BY <1>4, <1>7, <1>8, <1>10, <1>11 DEF Phases

LEMMA AnswersType ==
    ASSUME TypeOK
    PROVE  answers \in Seq(Seq(Parts)) /\ Len(answers) \in Nat /\ asked \in Nat
BY DEF TypeOK

LEMMA OneByOneInit == Init => OneByOneInv
<1> SUFFICES ASSUME Init PROVE OneByOneInv
  OBVIOUS
<1>1. AtRest
  BY DEF Init, AtRest, NoInput, NothingToDo, Idle, NoOutput
<1>2. Answered
  BY DEF Init, Answered
<1>3. \A i \in 1..Len(handed) : handed[i] = Body(i)
  BY DEF Init
<1> QED
  BY <1>1, <1>2, <1>3 DEF OneByOneInv, Phases

LEMMA OneByOneNext == TypeOK /\ OneByOneInv /\ [Next]_vars => OneByOneInv'
<1> SUFFICES ASSUME TypeOK, OneByOneInv, [Next]_vars, OneByOne'
             PROVE  (Running' => Phases') /\ Answered'
  BY DEF OneByOneInv
<1>1. UNCHANGED env
  BY DEF Next, Loop, Worker, Ask, Deliver, Recv, Close, OnMsg, Read, ReadAgain, ReadEnd, PickMsg,
     EndPick, RunTask, WriteCb, TakeJob, CheckConn, Post, vars
<1>2. OneByOne /\ Answered
  BY <1>1 DEF OneByOne, OneByOneInv
<1>3. CASE UNCHANGED vars
  <2>1. Running' <=> Running
    BY <1>3 DEF vars, Running
  <2>2. ASSUME Running PROVE Phases'
    <3>1. InPhase
      BY <1>2, <2>2 DEF InPhase, OneByOneInv
    <3> QED
      BY <1>3, <3>1, SamePhase DEF vars, client, net, out, pool
  <2>3. Answered'
    BY <1>2, <1>3 DEF vars, client, Answered
  <2> QED
    BY <2>1, <2>2, <2>3
<1>4. CASE Next
  <2>1. Running
    BY <1>4 DEF Next, Loop, Worker, Ask, Deliver, Recv, Close, OnMsg, Read, ReadAgain, ReadEnd, PickMsg,
       EndPick, RunTask, WriteCb, TakeJob, CheckConn, Post, LoopAt, WorkerAt
  <2>2. InPhase
    BY <1>2, <2>1 DEF InPhase, OneByOneInv
  <2>3. ASSUME Running' PROVE Phases'
    <3>1. CASE Close \/ OnMsg \/ ReadAgain \/ ReadEnd \/ EndPick
      <4>1. /\ disconn => disconn'
            /\ UNCHANGED <<env, asked, answers, wire, inq, inbuf, handed, jobs, job, tasks, outbuf, sockbuf>>
        BY <3>1 DEF Close, OnMsg, ReadAgain, ReadEnd, EndPick, client, net, out, pool
      <4> QED
        BY <2>2, <4>1, SamePhase
    <3> QED
      BY <1>4, <2>2, <2>3, <3>1, AskPhase, DeliverPhase, ReadPhase, PickPhase, WorkerPhase, RunTaskPhase,
         WritePhase, RecvPhase DEF Next, Loop
  <2>4. CASE ~Recv
    <3>1. UNCHANGED answers /\ asked' \in {asked, asked + 1}
      BY <1>4, <2>4 DEF Next, Loop, Worker, Ask, Deliver, Close, OnMsg, Read, ReadAgain, ReadEnd, PickMsg,
         EndPick, RunTask, WriteCb, TakeJob, CheckConn, Post, client
    <3>2. Len(answers') <= asked'
      BY <1>2, <3>1, AnswersType DEF Answered
    <3>3. Answered'
      BY <1>1, <1>2, <3>1, <3>2 DEF Answered
    <3> QED
      BY <2>3, <3>3
  <2>5. CASE Recv
    <3>1. /\ asked > 0 /\ asked \in Nat /\ Len(answers) + 1 = asked
          /\ answers' = Append(answers, sockbuf)
          /\ Answers(sockbuf, asked, Sendable(asked), env.pooled)
      BY <2>2, <2>5, RecvPhase
    <3>2. answers \in Seq(Seq(Parts)) /\ sockbuf \in Seq(Parts) /\ Len(answers) \in Nat
      BY AnswersType DEF TypeOK
    <3>3. /\ Len(answers') = asked /\ answers'[asked] = sockbuf
          /\ \A i \in 1..Len(answers) : answers'[i] = answers[i]
      BY <3>1, <3>2
    <3>4. asked' = asked
      BY <2>5 DEF Recv
    <3>5. ASSUME NEW i \in 1..Len(answers') PROVE Answers(answers'[i], i, Sendable(i), env.pooled)
      <4>1. CASE i = asked
        BY <3>1, <3>3, <4>1
      <4>2. CASE i # asked
        <5>1. i \in 1..Len(answers)
          BY <3>1, <3>2, <3>3, <4>2
        <5> QED
          BY <1>2, <3>3, <5>1 DEF Answered
      <4> QED
        BY <4>1, <4>2
    <3>6. Answered'
      BY <1>1, <3>1, <3>3, <3>4, <3>5 DEF Answered
    <3> QED
      BY <2>3, <3>6
  <2> QED
    BY <2>4, <2>5
<1> QED
  BY <1>3, <1>4

\* What is known of the buffer and of the one request under way.
THEOREM DeliveryInvAlways == Spec => [](TypeOK /\ ChunkInv /\ OneByOneInv)
<1>1. Init => TypeOK /\ ChunkInv /\ OneByOneInv
  BY InitTypes, ChunkInit, OneByOneInit
<1>2. TypeOK /\ ChunkInv /\ OneByOneInv /\ [Next]_vars => (TypeOK /\ ChunkInv /\ OneByOneInv)'
  BY NextTypes, ChunkNext, OneByOneNext
<1> QED
  BY <1>1, <1>2, PTL DEF Spec

\* on_msg() leaves nothing behind in the input buffer that it would need another
\* event to find, and every request of a client that waits for its answers is
\* handed up unaltered.
THEOREM NothingStranded == Spec => []NoMessageStranded
<1>1. TypeOK /\ ChunkInv /\ OneByOneInv => NoMessageStranded
  <2> SUFFICES ASSUME TypeOK, ChunkInv, OneByOneInv, lpc = "wait", ~disconn
               PROVE  /\ inbuf = <<>>
                      /\ OneByOne /\ wire \o inq = <<>> /\ Running =>
                             handed = [i \in 1..asked |-> Body(i)]
    BY DEF NoMessageStranded
  <2>1. inbuf = <<>>
    BY DEF ChunkInv
  <2>2. ASSUME OneByOne, wire \o inq = <<>>, Running PROVE handed = [i \in 1..asked |-> Body(i)]
    <3>1. InPhase
      BY <2>2 DEF InPhase, OneByOneInv
    <3>2. wire \in Seq(Cells) /\ inq \in Seq(Cells)
      BY DEF TypeOK
    <3>3. wire = <<>> /\ inq = <<>>
      BY <2>2, <3>2, ConcatEqualIffEmpty
    <3>4. ~UnderWay
      <4>1. UnderWay => Frame(asked) # <<>>
        BY <3>1, PhaseFacts, OneFrame DEF UnderWay
      <4> QED
        BY <2>1, <3>3, <4>1 DEF UnderWay
    <3>5. Len(handed) = asked /\ \A i \in 1..Len(handed) : handed[i] = Body(i)
      BY <3>1, <3>4 DEF InPhase, Phases, AtRest, BeingAnswered
    <3>6. handed = [i \in 1..Len(handed) |-> handed[i]]
      BY DEF TypeOK
    <3> QED
      BY <3>5, <3>6
  <2> QED
    BY <2>1, <2>2
<1> QED
  BY <1>1, DeliveryInvAlways, PTL

\* Every recv() of such a client returns the reply to the request it sent
\* before, as far as the copy and the send buffer let it through.
THEOREM AnswersAreRight == Spec => []AnswersMatch
<1>1. TypeOK /\ OneByOneInv => AnswersMatch
  <2> SUFFICES ASSUME TypeOK, OneByOneInv, OneByOne, NEW i \in DOMAIN answers
               PROVE  /\ Len(answers[i]) = Sendable(i)
                      /\ \A k \in 1..Sendable(i) :
                             ~env.pooled \/ k <= CopyLen => answers[i][k] = <<i, k>>
    BY DEF AnswersMatch
  <2>1. i \in 1..Len(answers)
    BY DEF TypeOK
  <2> QED
    BY <2>1 DEF OneByOneInv, Answered, Answers
<1> QED
  BY <1>1, DeliveryInvAlways, PTL
=============================================================================
