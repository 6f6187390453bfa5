-------------------------- MODULE Simulation_proofs --------------------------
(***************************************************************************)
(* Proofs about NetIf's listener, in every environment and for every frame *)
(* length and number of tries: it never calls into a NIC that is being     *)
(* destroyed, and it delivers the frames that are sent.                    *)
(***************************************************************************)
EXTENDS Simulation, FiniteSetTheorems, SequenceTheorems, TLAPS

\* sc_main is past ~NetIf.
Past == {"nic", "close", "join", "ended"}

\* The listener's thread runs.
Reading == {"accept", "length", "data", "callback"}

(* The inductive invariant: past ~NetIf no listener runs.  CallbackSafe    *)
(* alone says nothing of a listener that is about to deliver.              *)
Joined == main \in Past => listener.pc \notin Reading

-----------------------------------------------------------------------------
(* sc_main passes ~NetIf only by the join, and starts the listener before  *)
(* (main.cpp:55-76, 123; net_if.cpp:21-30, 77-82).                         *)
LEMMA MainKeepsJoined == ASSUME Joined, Main PROVE Joined'
<1> USE DEF Joined, Past, Reading
<1>1. CASE NetIfStart \/ StartBridge \/ WaitPoll \/ WaitCheck \/ SimSlice \/ SimEnds
          \/ DeleteNetIf
  BY <1>1 DEF NetIfStart, StartBridge, WaitPoll, WaitCheck, SimSlice, SimEnds, DeleteNetIf, mainVars, rxVars
<1>2. CASE TxAccepted
  BY <1>2 DEF TxAccepted
<1>3. CASE JoinRx
  BY <1>3 DEF JoinRx, rxVars
<1>4. CASE StopBridge \/ CloseBridge \/ JoinBridge
  BY <1>4 DEF StopBridge, CloseBridge, JoinBridge, rxVars
<1> QED
  BY <1>1, <1>2, <1>3, <1>4 DEF Main

(* A listener that takes a step runs, so sc_main is not past the join.     *)
LEMMA ListenerKeepsJoined == ASSUME Joined, NetThread PROVE Joined'
<1>1. listener.pc \in Reading /\ UNCHANGED main
  BY DEF NetThread, RxAccepted, ReadLength, ReadLengthCut, ReadData, RxEof, Callback, RxUnchanged, mainVars,
         Reading
<1> QED
  BY <1>1 DEF Joined

(* The socket thread and the world touch neither.                          *)
LEMMA OthersKeepJoined ==
    ASSUME Joined, SockThread \/ SockMessage \/ World PROVE Joined'
<1> USE DEF Joined, Past
<1>1. CASE SockThread \/ SockMessage
  BY <1>1 DEF SockThread, SockOpen, SockConnect, SockRetry, SockMessage, SockEof, SockHandled,
              SockUnchanged, mainVars, rxVars
<1>2. CASE Arrives \/ Leaves \/ Signal \/ BrokenPipe
  BY <1>2 DEF Arrives, Leaves, Signal, BrokenPipe, mainVars, rxVars
<1>3. CASE \E n \in 0 .. MaxLen + 1 : Inject(n)
  BY <1>3 DEF Inject, mainVars
<1> QED
  BY <1>1, <1>2, <1>3 DEF World

(* on_packet_rx runs on the listener's thread with the NIC, the bridge and *)
(* the interface in it: none of them is destroyed before the thread is     *)
(* joined (main.cpp:68-71, 123; net_if.cpp:21-30).                         *)
THEOREM CallbacksSafe == Spec => []CallbackSafe
<1>1. Init => Joined
  BY DEF Init, Joined, Past
<1>2. Joined /\ [Next]_vars => Joined'
  BY MainKeepsJoined, ListenerKeepsJoined, OthersKeepJoined
     DEF Next, vars, mainVars, rxVars, Joined
<1>3. Joined => CallbackSafe
  BY DEF Joined, CallbackSafe, Past, Reading
<1> QED
  BY <1>1, <1>2, <1>3, PTL DEF Spec

-----------------------------------------------------------------------------
(* The frames. *)

Word == [frame : Nat, pos : Nat]
RxTypes ==
    /\ lens \in Seq(Nat) /\ stream \in Seq(Word) /\ delivered \in Seq(Seq(Word))
    /\ listener \in [pc : {"none", "accept", "length", "data", "callback", "done"},
                     remain : Nat, buf : Seq(Word)]

(* What is left of a stream of frames of the lengths l: from each of its   *)
(* words on, the rest of its frame, and then the length word of the next   *)
(* frame, if there is one.                                                 *)
Follows(s, l, k, f, p) ==
    LET e == k + l[f] - p
    IN /\ f \in 1 .. Len(l) /\ p \in 0 .. l[f] /\ e <= Len(s)
       /\ \A i \in k .. e : s[i] = [frame |-> f, pos |-> p + (i - k)]
       /\ e = Len(s) => f = Len(l)
       /\ e < Len(s) => s[e + 1] = [frame |-> f + 1, pos |-> 0]
Framed(s, l) == \A k \in 1 .. Len(s) : Follows(s, l, k, s[k].frame, s[k].pos)

(* The last frame of which nothing is left (not even to be read, in        *)
(* "data"), and that the listener is between two frames.                   *)
Behind == IF stream = <<>> THEN Len(lens) ELSE stream[1].frame - 1
Between == stream # <<>> => stream[1].pos = 0

(* The listener has delivered what is behind it, and its buffer is what is *)
(* missing in the stream of the frame it reads.                            *)
ListenerOK ==
    /\ listener.pc \in {"none", "accept", "length"} =>
          Between /\ Len(delivered) = Rank(Behind)
    /\ listener.pc = "data" =>
          /\ stream # <<>> /\ stream[1].pos = Len(listener.buf) + 1
          /\ listener.remain = lens[stream[1].frame] - Len(listener.buf)
          /\ listener.buf = [k \in 1 .. Len(listener.buf) |->
                                [frame |-> stream[1].frame, pos |-> k]]
          /\ Len(delivered) = Rank(Behind)
    /\ listener.pc = "callback" =>
          /\ Between /\ Behind \in DOMAIN lens /\ lens[Behind] > 0
          /\ listener.buf = FrameWords(Behind)
          /\ Len(delivered) + 1 = Rank(Behind)

(* What has been delivered (FramesIntact without its premise).             *)
DeliveredOK ==
    \A i \in DOMAIN delivered :
        \E f \in DOMAIN lens : lens[f] > 0 /\ Rank(f) = i /\ delivered[i] = FrameWords(f)

LensOK == \A f \in DOMAIN lens : lens[f] <= MaxLen

(* The inductive invariant; the listener is started once.                  *)
RxOK == LensOK /\ Framed(stream, lens) /\ ListenerOK /\ DeliveredOK
NotBefore == main \in {"start", "accept"} => listener.pc = "none"
InStep == ~env.oversize /\ aligned
RxInv == RxTypes /\ NotBefore /\ (InStep => RxOK)

(* The rank of a frame.                                                    *)
LEMMA RankType == ASSUME NEW f \in Nat PROVE Rank(f) \in Nat
<1>1. IsFiniteSet(1 .. f)
  BY FS_Interval
<1> QED
  BY <1>1, FS_Subset, FS_CardinalityType DEF Rank

\* No frame comes before the first.
LEMMA RankZero == Rank(0) = 0
<1>1. {g \in 1 .. 0 : lens[g] > 0} = {}
  OBVIOUS
<1> QED
  BY <1>1, FS_EmptySet DEF Rank

\* A frame that is not empty ranks one higher than the frame before it.
LEMMA RankNext ==
    ASSUME NEW f \in Nat \ {0}
    PROVE  Rank(f) = IF lens[f] > 0 THEN Rank(f - 1) + 1 ELSE Rank(f - 1)
<1> DEFINE Below == {g \in 1 .. f - 1 : lens[g] > 0}
<1>1. IsFiniteSet(Below)
  <2>1. IsFiniteSet(1 .. f - 1) /\ Below \subseteq 1 .. f - 1
    BY FS_Interval
  <2> QED
    BY <2>1, FS_Subset
<1>2. {g \in 1 .. f : lens[g] > 0} = IF lens[f] > 0 THEN Below \cup {f} ELSE Below
  OBVIOUS
<1>3. f \notin Below
  OBVIOUS
<1> QED
  BY <1>1, <1>2, <1>3, FS_AddElement DEF Rank

(* Sending another frame leaves the ranks of the others.                   *)
LEMMA RankKept ==
    ASSUME NEW n \in Nat, lens \in Seq(Nat), lens' = Append(lens, n), NEW f \in 0 .. Len(lens)
    PROVE  Rank(f)' = Rank(f)
<1>1. \A g \in 1 .. f : lens'[g] = lens[g]
  OBVIOUS
<1>2. {g \in 1 .. f : lens'[g] > 0} = {g \in 1 .. f : lens[g] > 0}
  BY <1>1
<1> QED
  BY <1>2 DEF Rank

-----------------------------------------------------------------------------
(* The stream. *)

(* The rest of a stream is a stream.                                       *)
LEMMA RestFramed ==
    ASSUME NEW s \in Seq(Word), NEW l \in Seq(Nat), Framed(s, l), NEW r \in 1 .. Len(s),
           NEW t \in Seq(Word), Len(t) = Len(s) - r,
           \A k \in 1 .. Len(s) - r : t[k] = s[k + r]
    PROVE  Framed(t, l)
<1> SUFFICES ASSUME NEW k \in 1 .. Len(t) PROVE Follows(t, l, k, t[k].frame, t[k].pos)
  BY DEF Framed
<1>1. Len(s) \in Nat /\ Len(t) \in Nat /\ k + r \in 1 .. Len(s) /\ t[k] = s[k + r]
  OBVIOUS
<1> DEFINE f == t[k].frame
           p == t[k].pos
           e == k + l[f] - p
<1>2. Follows(s, l, k + r, f, p)
  BY <1>1 DEF Framed
<1> HIDE DEF f, p
<1>3. f \in 1 .. Len(l) /\ l[f] \in Nat /\ p \in 0 .. l[f]
  <2>1. f \in 1 .. Len(l) /\ p \in 0 .. l[f]
    BY <1>2 DEF Follows
  <2> QED
    BY <2>1
<1>9. k + r + l[f] - p = e + r /\ e = k + l[f] - p
  BY <1>1, <1>3
<1>10. e \in Nat
  BY <1>1, <1>3
<1> HIDE DEF e
<1>4. /\ e + r <= Len(s)
      /\ \A i \in k + r .. e + r : s[i] = [frame |-> f, pos |-> p + (i - (k + r))]
      /\ e + r = Len(s) => f = Len(l)
      /\ e + r < Len(s) => s[e + r + 1] = [frame |-> f + 1, pos |-> 0]
  BY <1>2, <1>9 DEF Follows
<1>5. ASSUME NEW i \in k .. e PROVE t[i] = [frame |-> f, pos |-> p + (i - k)]
  <2>1. i + r \in k + r .. e + r /\ i \in 1 .. Len(s) - r /\ (i + r) - (k + r) = i - k
    BY <1>1, <1>10, <1>4
  <2> QED
    BY <1>4, <2>1
<1>6. ASSUME e < Len(t) PROVE t[e + 1] = [frame |-> f + 1, pos |-> 0]
  <2>1. e + 1 \in 1 .. Len(s) - r /\ e + 1 + r = e + r + 1 /\ e + r < Len(s)
    BY <1>1, <1>10, <1>4, <1>6
  <2> QED
    BY <1>4, <2>1
<1>7. (e = Len(t) => f = Len(l)) /\ e <= Len(t)
  BY <1>1, <1>10, <1>4
<1> QED
  BY <1>3, <1>9, <1>5, <1>6, <1>7 DEF Follows, f, p

(* A stream with the words of one more frame is a stream.                  *)
LEMMA MoreFramed ==
    ASSUME NEW s \in Seq(Word), NEW l \in Seq(Nat), Framed(s, l), NEW n \in Nat,
           NEW t \in Seq(Word), Len(t) = Len(s) + n + 1,
           \A k \in 1 .. Len(s) : t[k] = s[k],
           \A k \in Len(s) + 1 .. Len(t) :
               t[k] = [frame |-> Len(l) + 1, pos |-> k - Len(s) - 1],
           NEW m \in Seq(Nat), Len(m) = Len(l) + 1, m[Len(l) + 1] = n,
           \A f \in 1 .. Len(l) : m[f] = l[f]
    PROVE  Framed(t, m)
<1> SUFFICES ASSUME NEW k \in 1 .. Len(t) PROVE Follows(t, m, k, t[k].frame, t[k].pos)
  BY DEF Framed
<1>1. Len(s) \in Nat /\ Len(t) \in Nat /\ Len(l) \in Nat
  OBVIOUS
<1>2. CASE k <= Len(s)
  <2>1. k \in 1 .. Len(s) /\ t[k] = s[k]
    BY <1>1, <1>2
  <2> DEFINE f == t[k].frame
             p == t[k].pos
             e == k + l[f] - p
  <2>2. Follows(s, l, k, f, p)
    BY <2>1 DEF Framed
  <2> HIDE DEF f, p
  <2>3. f \in 1 .. Len(l) /\ p \in 0 .. l[f]
    BY <2>2 DEF Follows
  <2>4. m[f] = l[f] /\ l[f] \in Nat /\ f \in 1 .. Len(m)
    BY <1>1, <2>3
  <2>5. e \in Nat /\ e = k + l[f] - p /\ e = k + m[f] - p
    <3>1. PICK d, q : d = l[f] /\ q = p
      OBVIOUS
    <3>2. k \in Nat /\ d \in Nat /\ q \in 0 .. d
      BY <1>1, <2>1, <2>3, <2>4, <3>1
    <3>3. k + d - q \in Nat
      BY <3>2
    <3> QED
      BY <2>4, <3>1, <3>3
  <2> HIDE DEF e
  <2>9. /\ e <= Len(s)
        /\ \A i \in k .. e : s[i] = [frame |-> f, pos |-> p + (i - k)]
        /\ e = Len(s) => f = Len(l)
        /\ e < Len(s) => s[e + 1] = [frame |-> f + 1, pos |-> 0]
    BY <2>2, <2>5 DEF Follows
  <2>6. ASSUME NEW i \in k .. e PROVE t[i] = [frame |-> f, pos |-> p + (i - k)]
    <3>1. i \in 1 .. Len(s)
      BY <1>1, <2>1, <2>5, <2>9
    <3>2. t[i] = s[i]
      BY <3>1
    <3>3. s[i] = [frame |-> f, pos |-> p + (i - k)]
      BY <2>9
    <3> QED
      BY <3>2, <3>3
  <2>7. e < Len(t) /\ t[e + 1] = [frame |-> f + 1, pos |-> 0]
    <3>1. CASE e = Len(s)
      <4>1. e + 1 \in Len(s) + 1 .. Len(t) /\ e + 1 - Len(s) - 1 = 0
        BY <1>1, <3>1
      <4>2. \A j \in Len(s) + 1 .. Len(t) : j = e + 1 =>
                t[j] = [frame |-> Len(l) + 1, pos |-> 0]
        <5> SUFFICES ASSUME NEW j \in Len(s) + 1 .. Len(t), j = e + 1
                     PROVE  t[j] = [frame |-> Len(l) + 1, pos |-> 0]
          OBVIOUS
        <5>1. t[j] = [frame |-> Len(l) + 1, pos |-> j - Len(s) - 1]
          OBVIOUS
        <5>2. j - Len(s) - 1 = 0
          BY <1>1, <2>5, <3>1
        <5> QED
          BY <5>1, <5>2
      <4>3. e < Len(t) /\ f = Len(l)
        BY <1>1, <2>9, <3>1
      <4> QED
        BY <4>1, <4>2, <4>3
    <3>2. CASE e < Len(s)
      <4>1. e + 1 \in 1 .. Len(s) /\ e < Len(t)
        BY <1>1, <2>5, <3>2, SMTT(30)
      <4>2. t[e + 1] = s[e + 1]
        BY <4>1
      <4> QED
        BY <2>9, <3>2, <4>1, <4>2
    <3> QED
      BY <1>1, <2>5, <2>9, <3>1, <3>2
  <2>8. e # Len(t) /\ e <= Len(t)
    BY <1>1, <2>5, <2>7, SMTT(30)
  <2> QED
    BY <2>3, <2>4, <2>5, <2>6, <2>7, <2>8 DEF Follows, f, p
<1>3. CASE k > Len(s)
  <2>1. k \in Len(s) + 1 .. Len(t)
    BY <1>1, <1>3
  <2>2. t[k].frame = Len(m) /\ t[k].pos = k - Len(s) - 1 /\ m[Len(m)] = n
    <3>1. t[k] = [frame |-> Len(l) + 1, pos |-> k - Len(s) - 1]
      BY <2>1
    <3> QED
      BY <3>1
  <2>3. k + n - (k - Len(s) - 1) = Len(t) /\ k - Len(s) - 1 \in 0 .. n /\ Len(m) \in 1 .. Len(m)
    BY <1>1, <2>1
  <2>4. ASSUME NEW i \in k .. Len(t)
        PROVE  t[i] = [frame |-> Len(m), pos |-> k - Len(s) - 1 + (i - k)]
    <3>1. i \in Len(s) + 1 .. Len(t) /\ k - Len(s) - 1 + (i - k) = i - Len(s) - 1
      BY <1>1, <2>1
    <3> QED
      BY <3>1
  <2>5. Len(t) <= Len(t) /\ ~(Len(t) < Len(t))
    BY <1>1
  <2> QED
    BY <2>2, <2>3, <2>4, <2>5 DEF Follows
<1> QED
  BY <1>1, <1>2, <1>3

(* What a read of r words leaves, as long as it stays within the frame at  *)
(* the head of the stream: another word of it, or the next frame.          *)
LeftBy(s, l, f, p, n, r, t) ==
    /\ f \in 1 .. Len(l) /\ p \in 0 .. n /\ n \in Nat
    /\ r <= Len(s) /\ t \in Seq(Word) /\ Framed(t, l)
    /\ \A i \in 1 .. r : s[i] = [frame |-> f, pos |-> p + (i - 1)]
    /\ r < n - p + 1 => t # <<>> /\ t[1] = [frame |-> f, pos |-> p + r]
    /\ r = n - p + 1 =>
          IF t = <<>> THEN f = Len(l) ELSE t[1] = [frame |-> f + 1, pos |-> 0]

\* What a read of r bytes leaves of the stream.
LEMMA ReadLeaves ==
    ASSUME NEW s \in Seq(Word), s # <<>>, NEW l \in Seq(Nat), Framed(s, l),
           NEW f, f = s[1].frame, NEW p, p = s[1].pos, NEW n, n = l[f],
           NEW r \in 1 .. n - p + 1, NEW t, t = SubSeq(s, r + 1, Len(s))
    PROVE  LeftBy(s, l, f, p, n, r, t)
<1>1. Len(s) \in Nat \ {0}
  OBVIOUS
<1>2. Follows(s, l, 1, f, p)
  BY <1>1 DEF Framed
<1>3. f \in 1 .. Len(l) /\ p \in 0 .. n
  BY <1>2 DEF Follows
<1>4. n \in Nat /\ Len(l) \in Nat
  BY <1>3
<1>5. PICK e : e = 1 + n - p
  OBVIOUS
<1>6. e \in Nat \ {0} /\ r \in 1 .. e /\ n - p + 1 = e
  BY <1>3, <1>4, <1>5, SMTT(30)
<1>7. /\ e <= Len(s)
      /\ \A i \in 1 .. e : s[i] = [frame |-> f, pos |-> p + (i - 1)]
      /\ e = Len(s) => f = Len(l)
      /\ e < Len(s) => s[e + 1] = [frame |-> f + 1, pos |-> 0]
  BY <1>2, <1>5 DEF Follows
<1>8. r <= Len(s) /\ r \in 1 .. Len(s)
  BY <1>1, <1>6, <1>7
<1>9. /\ t \in Seq(Word) /\ Len(t) = Len(s) - r
      /\ \A k \in 1 .. Len(s) - r : t[k] = s[k + r]
  BY <1>1, <1>8
<1>10. Framed(t, l)
  BY <1>8, <1>9, RestFramed
<1>14. t = <<>> <=> r = Len(s)
  <2>1. t = <<>> <=> Len(t) = 0
    BY <1>9, EmptySeq
  <2> QED
    BY <1>1, <1>8, <1>9, <2>1
<1>11. \A i \in 1 .. r : s[i] = [frame |-> f, pos |-> p + (i - 1)]
  BY <1>6, <1>7
<1>12. ASSUME r < e PROVE t # <<>> /\ t[1] = [frame |-> f, pos |-> p + r]
  <2>1. 1 \in 1 .. Len(s) - r /\ r + 1 \in 1 .. e /\ r + 1 - 1 = r
    BY <1>1, <1>6, <1>7, <1>12, SMTT(30)
  <2>2. t[1] = s[1 + r] /\ 1 + r = r + 1
    BY <1>6, <1>9, <2>1
  <2>3. t # <<>>
    BY <1>1, <1>6, <1>14, <2>1
  <2> QED
    BY <1>7, <2>1, <2>2, <2>3
<1>13. ASSUME r = e PROVE IF t = <<>> THEN f = Len(l) ELSE t[1] = [frame |-> f + 1, pos |-> 0]
  <2>1. CASE e = Len(s)
    BY <1>7, <1>9, <1>13, <2>1
  <2>2. CASE e < Len(s)
    <3>1. 1 \in 1 .. Len(s) - r
      BY <1>1, <1>6, <1>13, <2>2
    <3>2. t[1] = s[1 + r] /\ 1 + r = e + 1
      BY <1>6, <1>9, <1>13, <3>1
    <3>3. t # <<>>
      BY <1>1, <1>6, <1>14, <3>1
    <3> QED
      BY <1>7, <2>2, <3>2, <3>3
  <2> QED
    BY <1>1, <1>6, <1>7, <2>1, <2>2
<1> QED
  BY <1>3, <1>4, <1>6, <1>8, <1>9, <1>10, <1>11, <1>12, <1>13 DEF LeftBy

-----------------------------------------------------------------------------
(* The invariant is kept. *)

(* Steps of others leave the listener and its data alone.                  *)
LEMMA RxUndisturbed ==
    ASSUME Next, ~TxAccepted, ~NetThread, ~\E n \in 0 .. MaxLen + 1 : Inject(n)
    PROVE  /\ UNCHANGED <<listener, stream, lens, delivered, env, aligned>>
           /\ main' \in {"start", "accept"} => main \in {"start", "accept"}
<1>1. CASE Main
  BY <1>1 DEF Main, NetIfStart, StartBridge, WaitPoll, WaitCheck, SimSlice, SimEnds, DeleteNetIf, JoinRx,
     StopBridge, CloseBridge, JoinBridge, mainVars, rxVars
<1>2. CASE SockThread \/ SockMessage
  BY <1>2 DEF SockThread, SockOpen, SockConnect, SockRetry, SockMessage, SockEof, SockHandled,
              SockUnchanged, mainVars, rxVars
<1>3. CASE World
  BY <1>3 DEF World, Arrives, Leaves, Signal, BrokenPipe, mainVars, rxVars
<1>4. Main \/ SockThread \/ SockMessage \/ World
  BY DEF Next
<1> QED
  BY <1>1, <1>2, <1>3, <1>4

(* Types.                                                                  *)
LEMMA RxTypesKept == ASSUME RxTypes, Next PROVE RxTypes'
<1> USE DEF RxTypes
<1>1. CASE TxAccepted
  BY <1>1 DEF TxAccepted, Listener
<1>2. ASSUME NEW n \in 0 .. MaxLen + 1, Inject(n) PROVE RxTypes'
  <2>1. n \in Nat
    BY SimulationAssumption
  <2>2. [k \in 1 .. n + 1 |-> [frame |-> Len(lens) + 1, pos |-> k - 1]] \in Seq(Word)
    BY <2>1 DEF Word
  <2>3. lens' \in Seq(Nat)
    BY <1>2, <2>1 DEF Inject
  <2>4. stream' \in Seq(Word)
    BY <1>2, <2>2 DEF Inject
  <2>5. UNCHANGED <<delivered, listener>>
    BY <1>2 DEF Inject
  <2> QED
    BY <2>3, <2>4, <2>5
<1>3. CASE RxAccepted \/ RxEof
  <2>1. \E q \in {"length", "done"} : listener' = Listener(q)
    BY <1>3 DEF RxAccepted, RxEof
  <2>2. UNCHANGED <<stream, delivered, lens>>
    BY <1>3 DEF RxAccepted, RxEof, RxUnchanged
  <2> QED
    BY <2>1, <2>2 DEF Listener
<1>4. CASE ReadLength \/ ReadLengthCut
  <2>1. stream' \in Seq(Word) /\ UNCHANGED <<lens, delivered>>
    <3>1. CASE ReadLength
      BY <3>1 DEF ReadLength, RxUnchanged
    <3>2. CASE ReadLengthCut
      BY <3>2 DEF ReadLengthCut, RxUnchanged
    <3> QED
      BY <1>4, <3>1, <3>2
  <2>2. PICK n : listener' = IF n \in 1 .. MaxLen
                             THEN [pc |-> NextRead("data"), remain |-> n, buf |-> <<>>]
                             ELSE Listener(NextRead("length"))
    BY <1>4 DEF ReadLength, ReadLengthCut, Begin
  <2> QED
    BY <2>1, <2>2, SimulationAssumption DEF Listener, NextRead
<1>5. CASE ReadData
  <2>1. PICK r \in 1 .. listener.remain :
          /\ r <= Len(stream)
          /\ stream' = SubSeq(stream, r + 1, Len(stream))
          /\ listener' = [pc |-> IF r = listener.remain THEN "callback" ELSE NextRead("data"),
                          remain |-> listener.remain - r,
                          buf |-> listener.buf \o SubSeq(stream, 1, r)]
    BY <1>5 DEF ReadData
  <2>2. stream' \in Seq(Word) /\ SubSeq(stream, 1, r) \in Seq(Word)
    BY <2>1
  <2>3. listener.buf \o SubSeq(stream, 1, r) \in Seq(Word) /\ listener.remain - r \in Nat
    BY <2>2
  <2> QED
    BY <1>5, <2>1, <2>2, <2>3 DEF ReadData, RxUnchanged, NextRead
<1>6. CASE Callback
  BY <1>6 DEF Callback, RxUnchanged, Listener, NextRead
<1> QED
  BY <1>1, <1>2, <1>3, <1>4, <1>5, <1>6, RxUndisturbed DEF NetThread

(* What has been delivered stays so when a frame is sent.                  *)
LEMMA DeliveredStays ==
    ASSUME RxTypes, DeliveredOK, NEW n \in Nat, lens' = Append(lens, n), delivered' = delivered
    PROVE  DeliveredOK'
<1> USE DEF RxTypes
<1> SUFFICES ASSUME NEW i \in DOMAIN delivered
             PROVE  \E f \in DOMAIN lens' : /\ lens'[f] > 0 /\ Rank(f)' = i
                                            /\ delivered[i] = FrameWords(f)'
  BY DEF DeliveredOK
<1>1. PICK f \in DOMAIN lens : lens[f] > 0 /\ Rank(f) = i /\ delivered[i] = FrameWords(f)
  BY DEF DeliveredOK
<1>2. f \in DOMAIN lens' /\ lens'[f] = lens[f] /\ f \in 0 .. Len(lens)
  OBVIOUS
<1>3. Rank(f)' = Rank(f)
  BY <1>2, RankKept
<1>4. FrameWords(f)' = FrameWords(f)
  BY <1>2 DEF FrameWords
<1> QED
  BY <1>1, <1>2, <1>3, <1>4

(* A frame that is sent reaches no further than the stream.                *)
LEMMA InjectKeeps ==
    ASSUME RxTypes, RxOK, ~env.oversize, NEW n \in 0 .. MaxLen + 1, Inject(n)
    PROVE  RxOK'
<1>0. /\ lens \in Seq(Nat) /\ stream \in Seq(Word) /\ Len(stream) \in Nat /\ Len(lens) \in Nat
      /\ LensOK /\ Framed(stream, lens) /\ ListenerOK /\ DeliveredOK
  BY DEF RxTypes, RxOK
<1> DEFINE new == [k \in 1 .. n + 1 |-> [frame |-> Len(lens) + 1, pos |-> k - 1]]
           l == lens'
           s == stream'
<1>1. n \in Nat /\ n <= MaxLen
  BY SimulationAssumption DEF Inject
<1>2. /\ s = stream \o new /\ l = Append(lens, n) /\ UNCHANGED <<listener, delivered>>
      /\ new \in Seq(Word) /\ Len(new) = n + 1
      /\ \A j \in 1 .. n + 1 : new[j] = [frame |-> Len(lens) + 1, pos |-> j - 1]
  BY <1>0, <1>1 DEF Inject, Word
<1> HIDE DEF new
<1>3. /\ s \in Seq(Word) /\ Len(s) = Len(stream) + n + 1
      /\ \A k \in 1 .. Len(stream) : s[k] = stream[k]
  <2>1. stream \o new \in Seq(Word) /\ Len(stream \o new) = Len(stream) + Len(new)
        /\ \A k \in 1 .. Len(stream) + Len(new) :
               (stream \o new)[k] = IF k <= Len(stream) THEN stream[k] ELSE new[k - Len(stream)]
    BY <1>0, <1>2, ConcatProperties
  <2> HIDE DEF s
  <2> QED
    BY <1>0, <1>1, <1>2, <2>1
<1>12. s # <<>>
  BY <1>0, <1>1, <1>3, EmptySeq
<1>4. ASSUME NEW k \in Len(stream) + 1 .. Len(s)
      PROVE  s[k] = [frame |-> Len(lens) + 1, pos |-> k - Len(stream) - 1]
  <2>1. k - Len(stream) \in 1 .. n + 1 /\ s[k] = new[k - Len(stream)]
    BY <1>0, <1>1, <1>2, <1>3
  <2> QED
    BY <1>2, <2>1
<1>5. /\ l \in Seq(Nat) /\ Len(l) = Len(lens) + 1 /\ l[Len(lens) + 1] = n
      /\ \A f \in 1 .. Len(lens) : l[f] = lens[f]
  BY <1>0, <1>1, <1>2
<1>6. Framed(s, l)
  BY <1>0, <1>1, <1>3, <1>4, <1>5, MoreFramed
<1>7. LensOK'
  <2> SUFFICES ASSUME NEW f \in DOMAIN l PROVE l[f] <= MaxLen
    BY DEF LensOK
  <2>1. f \in 1 .. Len(lens) \/ f = Len(lens) + 1
    BY <1>0, <1>5
  <2> QED
    BY <1>0, <1>1, <1>5, <2>1 DEF LensOK
<1>8. DeliveredOK'
  BY <1>0, <1>1, <1>2, DeliveredStays
<1>9. ListenerOK'
  <2>1. CASE stream = <<>>
    <3>1. 1 \in Len(stream) + 1 .. Len(s) /\ 1 - Len(stream) - 1 = 0
      <4>1. Len(stream) = 0
        BY <2>1, EmptySeq
      <4> QED
        BY <1>1, <1>3, <4>1
    <3>2. s[1] = [frame |-> Len(lens) + 1, pos |-> 0] /\ s # <<>>
      BY <1>4, <1>12, <3>1
    <3>3. PICK c : c = Len(lens)
      OBVIOUS
    <3>4. Behind = c /\ Behind' = c /\ Between' /\ c \in 0 .. Len(lens)
      BY <1>0, <2>1, <3>2, <3>3 DEF Behind, Between
    <3>5. Rank(c)' = Rank(c)
      BY <1>0, <1>1, <1>2, <3>4, RankKept
    <3>6. c \in DOMAIN lens => /\ FrameWords(c)' = FrameWords(c)
                               /\ l[c] = lens[c] /\ c \in DOMAIN l
      <4>1. c \in DOMAIN lens => l[c] = lens[c] /\ c \in DOMAIN l
        BY <1>0, <1>5
      <4> QED
        BY <4>1 DEF FrameWords
    <3> QED
      BY <1>2, <2>1, <3>4, <3>5, <3>6, <1>0 DEF ListenerOK
  <2>2. CASE stream # <<>>
    <3>1. 1 \in 1 .. Len(stream) /\ s[1] = stream[1] /\ s # <<>>
      BY <1>0, <1>3, <2>2
    <3>2. stream[1].frame \in 1 .. Len(lens)
      BY <1>0, <3>1 DEF Framed, Follows
    <3>3. Behind \in 0 .. Len(lens) /\ Behind' = Behind /\ Between' = Between
      BY <1>0, <2>2, <3>1, <3>2 DEF Behind, Between
    <3>4. Rank(Behind)' = Rank(Behind) /\ lens'[stream[1].frame] = lens[stream[1].frame]
      BY <1>0, <1>1, <1>2, <1>5, <3>2, <3>3, RankKept
    <3>5. Behind \in DOMAIN lens => FrameWords(Behind)' = FrameWords(Behind)
                                    /\ lens'[Behind] = lens[Behind] /\ Behind \in DOMAIN lens'
      BY <1>0, <1>5, <3>3 DEF FrameWords
    <3> QED
      BY <1>0, <1>2, <2>2, <3>1, <3>3, <3>4, <3>5 DEF ListenerOK
  <2> QED
    BY <2>1, <2>2
<1> QED
  BY <1>6, <1>7, <1>8, <1>9 DEF RxOK

(* What stays when the frames and the deliveries do.                       *)
LEMMA DeliveredSame == ASSUME DeliveredOK, UNCHANGED <<lens, delivered>> PROVE DeliveredOK'
<1>1. /\ UNCHANGED <<DOMAIN delivered, DOMAIN lens>>
      /\ \A f : Rank(f)' = Rank(f) /\ FrameWords(f)' = FrameWords(f)
  BY DEF Rank, FrameWords
<1> QED
  BY <1>1 DEF DeliveredOK

(* A length word is read: its frame is begun, or skipped if it is empty.   *)
LEMMA ReadLengthKeeps == ASSUME RxTypes, RxOK, aligned, ReadLength PROVE RxOK'
<1>0. /\ lens \in Seq(Nat) /\ stream \in Seq(Word) /\ stream # <<>> /\ Len(stream) \in Nat \ {0}
      /\ LensOK /\ Framed(stream, lens) /\ DeliveredOK
      /\ stream[1].pos = 0 /\ Len(delivered) = Rank(Behind) /\ Behind = stream[1].frame - 1
  BY EmptySeq DEF RxTypes, RxOK, ReadLength, ListenerOK, Between, Behind
<1>1. PICK f : f = stream[1].frame
  OBVIOUS
<1>2. /\ stream' = Tail(stream) /\ UNCHANGED <<lens, delivered>>
      /\ \E n \in Lengths(Head(stream)) :
            listener' = IF n \in 1 .. MaxLen
                        THEN [pc |-> NextRead("data"), remain |-> n, buf |-> <<>>]
                        ELSE Listener(NextRead("length"))
  BY DEF ReadLength, RxUnchanged, Begin
<1>3. listener' = IF lens[f] \in 1 .. MaxLen
                  THEN [pc |-> NextRead("data"), remain |-> lens[f], buf |-> <<>>]
                  ELSE Listener(NextRead("length"))
  <2>1. Head(stream) = stream[1]
    BY <1>0
  <2> QED
    BY <1>0, <1>1, <1>2, <2>1 DEF Lengths
<1>4. stream' = SubSeq(stream, 1 + 1, Len(stream))
  BY <1>0, <1>2
<1>5. f \in 1 .. Len(lens) /\ lens[f] \in Nat /\ lens[f] <= MaxLen
  <2>1. Follows(stream, lens, 1, f, stream[1].pos)
    BY <1>0, <1>1 DEF Framed
  <2>2. f \in 1 .. Len(lens)
    BY <2>1 DEF Follows
  <2> QED
    BY <1>0, <2>2 DEF LensOK
<1>6. /\ stream' \in Seq(Word) /\ Framed(stream', lens)
      /\ lens[f] > 0 => stream' # <<>> /\ stream'[1] = [frame |-> f, pos |-> 1]
      /\ lens[f] = 0 =>
            IF stream' = <<>> THEN f = Len(lens) ELSE stream'[1] = [frame |-> f + 1, pos |-> 0]
  <2>1. PICK n, p : n = lens[f] /\ p = stream[1].pos
    OBVIOUS
  <2>2. n \in Nat /\ p = 0 /\ 1 \in 1 .. n - p + 1 /\ n - p + 1 = n + 1 /\ p + 1 = 1
    BY <1>0, <1>5, <2>1
  <2>3. PICK t : t = stream'
    OBVIOUS
  <2>4. LeftBy(stream, lens, f, p, n, 1, t)
    <3>1. t = SubSeq(stream, 1 + 1, Len(stream))
      BY <1>4, <2>3
    <3>2. stream \in Seq(Word) /\ stream # <<>> /\ lens \in Seq(Nat) /\ Framed(stream, lens)
      BY <1>0
    <3>3. f = stream[1].frame /\ p = stream[1].pos /\ n = lens[f] /\ 1 \in 1 .. n - p + 1
      BY <1>1, <2>1, <2>2
    <3> QED
      BY <3>1, <3>2, <3>3, ReadLeaves
  <2> QED
    BY <2>1, <2>2, <2>3, <2>4 DEF LeftBy
<1>7. ListenerOK'
  <2>1. CASE lens[f] > 0
    <3>1. stream' # <<>> /\ stream'[1].frame = f /\ stream'[1].pos = 1
      BY <1>5, <1>6, <2>1
    <3>2. listener'.pc \in {"data", "done"} /\ listener'.remain = lens[f] /\ listener'.buf = <<>>
      BY <1>3, <1>5, <2>1, SimulationAssumption DEF NextRead
    <3>3. Len(<<>>) = 0 /\ <<>> = [k \in 1 .. 0 |-> [frame |-> f, pos |-> k]]
      OBVIOUS
    <3>4. Behind' = f - 1 /\ Behind = f - 1
      BY <1>0, <1>1, <3>1 DEF Behind
    <3>5. Len(delivered') = Rank(Behind)'
      BY <1>0, <1>2, <3>4 DEF Rank
    <3>6. lens'[f] = lens[f] /\ lens[f] - 0 = lens[f]
      BY <1>2, <1>5
    <3> QED
      BY <3>1, <3>2, <3>3, <3>5, <3>6 DEF ListenerOK
  <2>2. CASE lens[f] = 0
    <3>1. listener'.pc \in {"length", "done"}
      BY <1>3, <2>2, SimulationAssumption DEF Listener, NextRead
    <3>2. Behind' = f /\ Between' /\ Behind = f - 1
      <4>1. IF stream' = <<>> THEN f = Len(lens') ELSE stream'[1] = [frame |-> f + 1, pos |-> 0]
        BY <1>2, <1>6, <2>2
      <4>2. (f + 1) - 1 = f
        BY <1>5
      <4>3. Behind' = f /\ Between'
        BY <4>1, <4>2 DEF Behind, Between
      <4> QED
        BY <1>0, <1>1, <4>3
    <3>3. Rank(f) = Rank(f - 1)
      BY <1>5, <2>2, RankNext
    <3>4. Len(delivered') = Rank(Behind)'
      BY <1>0, <1>2, <3>2, <3>3 DEF Rank
    <3> QED
      BY <3>1, <3>2, <3>4 DEF ListenerOK
  <2> QED
    BY <1>5, <2>1, <2>2
<1>8. LensOK' /\ DeliveredOK' /\ Framed(stream', lens')
  BY <1>0, <1>2, <1>6, DeliveredSame DEF LensOK
<1> QED
  BY <1>7, <1>8 DEF RxOK

(* Data are read: as many words as there are, up to the end of the frame.  *)
LEMMA ReadDataKeeps == ASSUME RxTypes, RxOK, ReadData PROVE RxOK'
<1>0. /\ lens \in Seq(Nat) /\ stream \in Seq(Word) /\ stream # <<>>
      /\ listener.buf \in Seq(Word) /\ LensOK /\ Framed(stream, lens) /\ DeliveredOK
  BY DEF RxTypes, RxOK, ReadData
<1>1. PICK buf, b, f, p, n : /\ buf = listener.buf /\ b = Len(buf) /\ f = stream[1].frame
                             /\ p = stream[1].pos /\ n = lens[f]
  OBVIOUS
<1>2. /\ p = b + 1 /\ listener.remain = n - b
      /\ buf = [k \in 1 .. b |-> [frame |-> f, pos |-> k]]
      /\ Len(delivered) = Rank(f - 1)
  BY <1>1 DEF RxOK, ReadData, ListenerOK, Behind
<1>3. PICK r \in 1 .. listener.remain :
        /\ r <= Len(stream) /\ stream' = SubSeq(stream, r + 1, Len(stream))
        /\ listener' = [pc |-> IF r = listener.remain THEN "callback" ELSE NextRead("data"),
                        remain |-> listener.remain - r,
                        buf |-> listener.buf \o SubSeq(stream, 1, r)]
  BY DEF ReadData
<1>4. UNCHANGED <<lens, delivered>>
  BY DEF ReadData, RxUnchanged
<1>5. buf \in Seq(Word) /\ b \in Nat
  BY <1>0, <1>1
<1>6. f \in 1 .. Len(lens) /\ n \in Nat /\ p \in 0 .. n
  <2>1. Len(stream) \in Nat \ {0}
    BY <1>0, EmptySeq
  <2>2. Follows(stream, lens, 1, f, p)
    BY <1>0, <1>1, <2>1 DEF Framed
  <2>3. f \in 1 .. Len(lens) /\ p \in 0 .. n
    BY <1>1, <2>2 DEF Follows
  <2> QED
    BY <1>0, <1>1, <2>3
<1>7. p = b + 1 /\ n - p + 1 = n - b /\ r \in 1 .. n - p + 1 /\ r \in Nat
  <2>1. r \in 1 .. n - b /\ p = b + 1
    BY <1>2
  <2> QED
    BY <1>5, <1>6, <2>1
<1>8. /\ r <= Len(stream) /\ stream' \in Seq(Word) /\ Framed(stream', lens)
      /\ \A i \in 1 .. r : stream[i] = [frame |-> f, pos |-> p + (i - 1)]
      /\ r < n - p + 1 => stream' # <<>> /\ stream'[1] = [frame |-> f, pos |-> p + r]
      /\ r = n - p + 1 =>
            IF stream' = <<>> THEN f = Len(lens) ELSE stream'[1] = [frame |-> f + 1, pos |-> 0]
  <2>1. PICK t : t = stream'
    OBVIOUS
  <2>2. t = SubSeq(stream, r + 1, Len(stream))
    BY <1>3, <2>1
  <2>3. stream \in Seq(Word) /\ stream # <<>> /\ lens \in Seq(Nat) /\ Framed(stream, lens)
    BY <1>0
  <2>4. f = stream[1].frame /\ p = stream[1].pos /\ n = lens[f] /\ r \in 1 .. n - p + 1
    BY <1>1, <1>7
  <2>5. LeftBy(stream, lens, f, p, n, r, t)
    BY <2>2, <2>3, <2>4, ReadLeaves
  <2> QED
    BY <2>1, <2>5 DEF LeftBy
<1>9. /\ Len(listener'.buf) = b + r
      /\ listener'.buf = [k \in 1 .. b + r |-> [frame |-> f, pos |-> k]]
  <2> DEFINE more == SubSeq(stream, 1, r)
  <2>1. /\ more \in Seq(Word) /\ Len(more) = r
        /\ \A i \in 1 .. r : more[i] = stream[i]
    BY <1>0, <1>7, <1>8
  <2> HIDE DEF more
  <2>2. /\ buf \o more \in Seq(Word) /\ Len(buf \o more) = b + r
        /\ \A k \in 1 .. b + r : (buf \o more)[k] = IF k <= b THEN buf[k] ELSE more[k - b]
    <3>1. /\ buf \o more \in Seq(Word) /\ Len(buf \o more) = Len(buf) + Len(more)
          /\ \A k \in 1 .. Len(buf) + Len(more) :
                 (buf \o more)[k] = IF k <= Len(buf) THEN buf[k] ELSE more[k - Len(buf)]
      BY <1>5, <2>1, ConcatProperties
    <3>2. Len(buf) = b /\ Len(more) = r
      BY <1>1, <2>1
    <3> QED
      BY <3>1, <3>2
  <2>3. ASSUME NEW k \in 1 .. b + r PROVE (buf \o more)[k] = [frame |-> f, pos |-> k]
    <3>1. CASE k <= b
      BY <1>2, <1>5, <2>2, <3>1
    <3>2. CASE k > b
      <4>1. k - b \in 1 .. r /\ p + ((k - b) - 1) = k
        BY <1>5, <1>7, <3>2
      <4>2. (buf \o more)[k] = more[k - b]
        <5>1. ~(k <= b)
          BY <1>5, <1>7, <3>2
        <5> QED
          BY <2>2, <5>1
      <4>3. more[k - b] = stream[k - b]
        BY <2>1, <4>1
      <4>4. stream[k - b] = [frame |-> f, pos |-> p + ((k - b) - 1)]
        BY <1>8, <4>1
      <4> QED
        BY <4>1, <4>2, <4>3, <4>4
    <3>3. k <= b \/ k > b
      BY <1>5, <1>7
    <3> QED
      BY <3>1, <3>2, <3>3
  <2>4. buf \o more = [k \in 1 .. b + r |-> [frame |-> f, pos |-> k]]
    <3>1. \A q \in Seq(Word) : Len(q) = b + r => q = [k \in 1 .. b + r |-> q[k]]
      BY <1>5, <1>7
    <3> QED
      BY <2>2, <2>3, <3>1
  <2> QED
    BY <1>1, <1>3, <2>2, <2>4 DEF more
<1>10. ListenerOK'
  <2>1. CASE r = n - b
    <3>1. listener'.pc = "callback" /\ b + r = n /\ n > 0
      <4>1. r = listener.remain
        BY <1>2, <2>1
      <4>2. listener'.pc = "callback"
        BY <1>3, <4>1
      <4>3. b + r = n /\ n > 0
        BY <1>5, <1>6, <1>7, <2>1
      <4> QED
        BY <4>2, <4>3
    <3>2. Behind' = f /\ Between'
      <4>1. IF stream' = <<>> THEN f = Len(lens') ELSE stream'[1] = [frame |-> f + 1, pos |-> 0]
        BY <1>4, <1>7, <1>8, <2>1
      <4>2. (f + 1) - 1 = f
        BY <1>6
      <4> QED
        BY <4>1, <4>2 DEF Behind, Between
    <3>3. listener'.buf = FrameWords(Behind)'
      BY <1>1, <1>4, <1>9, <3>1, <3>2 DEF FrameWords
    <3>4. Rank(f) = Rank(f - 1) + 1
      BY <1>0, <1>1, <1>6, <3>1, RankNext
    <3>5. Len(delivered') + 1 = Rank(Behind)'
      BY <1>2, <1>4, <3>2, <3>4 DEF Rank
    <3>6. Behind' \in DOMAIN lens' /\ lens'[Behind'] > 0
      BY <1>0, <1>1, <1>4, <1>6, <3>1, <3>2
    <3> QED
      BY <3>1, <3>2, <3>3, <3>5, <3>6 DEF ListenerOK
  <2>2. CASE r < n - b
    <3>1. stream' # <<>> /\ stream'[1].frame = f /\ stream'[1].pos = b + r + 1
      <4>1. stream' # <<>> /\ stream'[1] = [frame |-> f, pos |-> p + r]
        BY <1>7, <1>8, <2>2
      <4> QED
        BY <1>5, <1>7, <4>1
    <3>2. listener'.pc \in {"data", "done"} /\ listener'.remain = n - (b + r)
      <4>1. r # listener.remain
        BY <1>2, <1>5, <1>6, <1>7, <2>2
      <4>2. listener'.remain = (n - b) - r /\ listener'.pc = NextRead("data")
        BY <1>2, <1>3, <4>1
      <4> QED
        BY <1>5, <1>6, <1>7, <4>2 DEF NextRead
    <3>3. Behind' = f - 1
      BY <3>1 DEF Behind
    <3>4. Len(delivered') = Rank(Behind)'
      BY <1>2, <1>4, <3>3 DEF Rank
    <3> QED
      BY <1>1, <1>4, <1>9, <3>1, <3>2, <3>4 DEF ListenerOK
  <2> QED
    BY <1>5, <1>6, <1>7, <2>1, <2>2
<1>11. LensOK' /\ DeliveredOK' /\ Framed(stream', lens')
  BY <1>0, <1>4, <1>8, DeliveredSame DEF LensOK
<1> QED
  BY <1>10, <1>11 DEF RxOK

(* The frame in the buffer is delivered: the next one in rank.             *)
LEMMA CallbackKeeps == ASSUME RxTypes, RxOK, Callback PROVE RxOK'
<1>1. /\ delivered' = Append(delivered, listener.buf)
      /\ UNCHANGED <<lens, stream>> /\ listener'.pc \in {"length", "done"}
  BY DEF Callback, RxUnchanged, Listener, NextRead
<1>2. PICK c, d : c = Behind /\ d = Len(delivered)
  OBVIOUS
<1>3. /\ Between /\ c \in DOMAIN lens /\ lens[c] > 0 /\ listener.buf = FrameWords(c)
      /\ d + 1 = Rank(c)
  BY <1>2 DEF RxOK, ListenerOK, Callback
<1>4. /\ delivered \in Seq(Seq(Word)) /\ listener.buf \in Seq(Word) /\ d \in Nat
  BY <1>2 DEF RxTypes
<1>5. /\ Len(delivered') = d + 1 /\ delivered'[d + 1] = listener.buf
      /\ DOMAIN delivered' = 1 .. d + 1
      /\ \A i \in 1 .. d : delivered'[i] = delivered[i] /\ i \in DOMAIN delivered
  BY <1>1, <1>2, <1>4
<1>6. \A g : Rank(g)' = Rank(g) /\ FrameWords(g)' = FrameWords(g)
  BY <1>1 DEF Rank, FrameWords
<1>7. DeliveredOK'
  <2> SUFFICES ASSUME NEW i \in DOMAIN delivered'
               PROVE  \E g \in DOMAIN lens : /\ lens[g] > 0 /\ Rank(g) = i
                                             /\ delivered'[i] = FrameWords(g)
    BY <1>1, <1>6 DEF DeliveredOK
  <2>1. CASE i = d + 1
    BY <1>3, <1>5, <2>1
  <2>2. CASE i \in 1 .. d
    <3>1. delivered'[i] = delivered[i] /\ i \in DOMAIN delivered
      BY <1>5, <2>2
    <3> QED
      BY <3>1 DEF RxOK, DeliveredOK
  <2> QED
    BY <1>4, <1>5, <2>1, <2>2
<1>8. ListenerOK'
  <2>1. Behind' = c /\ Between'
    BY <1>1, <1>2, <1>3 DEF Behind, Between
  <2>2. Rank(Behind)' = Rank(c)
    BY <1>1, <2>1 DEF Rank
  <2> QED
    BY <1>1, <1>3, <1>5, <2>1, <2>2 DEF ListenerOK
<1> QED
  BY <1>1, <1>7, <1>8 DEF RxOK, LensOK

(* The other steps move the listener only to its start or to its end.      *)
LEMMA OthersKeepRx ==
    ASSUME RxOK, UNCHANGED <<stream, lens, delivered>>,
           \/ UNCHANGED listener
           \/ listener'.pc = "done"
           \/ listener.pc \in {"none", "accept"} /\ listener'.pc \in {"accept", "length"}
    PROVE  RxOK'
<1>1. /\ UNCHANGED <<Behind, Between>>
      /\ \A f : Rank(f)' = Rank(f) /\ FrameWords(f)' = FrameWords(f)
  BY DEF Behind, Between, Rank, FrameWords
<1>2. Rank(Behind)' = Rank(Behind) /\ FrameWords(Behind)' = FrameWords(Behind)
  BY <1>1 DEF Rank, FrameWords
<1>3. ListenerOK'
  BY <1>1, <1>2 DEF ListenerOK, RxOK
<1> QED
  BY <1>3, DeliveredSame DEF RxOK, LensOK

\* The receiver starts with nothing read and nothing sent.
LEMMA RxInit == Init => RxInv
<1> SUFFICES ASSUME Init PROVE RxInv
  OBVIOUS
<1>1. /\ stream = <<>> /\ lens = <<>> /\ delivered = <<>> /\ listener = Listener("none")
  BY DEF Init
<1>2. RxTypes
  BY <1>1 DEF RxTypes, Listener
<1>3. Len(lens) = 0 /\ DOMAIN lens = {} /\ DOMAIN delivered = {} /\ Len(stream) = 0
      /\ Len(delivered) = 0
  BY <1>1
<1>4. ListenerOK
  <2>1. Behind = 0 /\ Between
    BY <1>1, <1>3 DEF Behind, Between
  <2> QED
    BY <1>1, <1>3, <2>1, RankZero DEF ListenerOK, Listener
<1>5. LensOK /\ DeliveredOK /\ Framed(stream, lens)
  BY <1>3 DEF LensOK, DeliveredOK, Framed
<1> QED
  BY <1>1, <1>2, <1>4, <1>5 DEF RxInv, RxOK, NotBefore, Listener

\* Every step keeps the invariant of reception.
LEMMA RxNext == RxInv /\ [Next]_vars => RxInv'
<1> SUFFICES ASSUME RxInv, [Next]_vars PROVE RxInv'
  OBVIOUS
<1>1. CASE UNCHANGED vars
  <2>1. UNCHANGED <<stream, aligned, lens, delivered, listener, main, env>>
    BY <1>1 DEF vars, mainVars, rxVars
  <2> QED
    BY <2>1, OthersKeepRx DEF RxInv, RxTypes, NotBefore, InStep
<1>2. CASE Next
  <2>1. RxTypes'
    BY <1>2, RxTypesKept DEF RxInv
  <2>2. CASE TxAccepted
    <3>1. /\ UNCHANGED <<stream, aligned, lens, delivered, env>> /\ listener'.pc = "accept"
          /\ main = "accept" /\ main' = "signals"
      BY <2>2 DEF TxAccepted, Listener
    <3>2. listener.pc = "none"
      BY <3>1 DEF RxInv, NotBefore
    <3>3. RxOK => RxOK'
      BY <3>1, <3>2, OthersKeepRx
    <3> QED
      BY <2>1, <3>1, <3>3 DEF RxInv, NotBefore, InStep
  <2>3. CASE NetThread
    <3>1. UNCHANGED <<env, main>> /\ listener.pc # "none"
      BY <2>3 DEF NetThread, RxAccepted, ReadLength, ReadLengthCut, ReadData, RxEof, Callback, RxUnchanged,
                  mainVars
    <3>2. aligned' => aligned
      BY <2>3 DEF NetThread, RxAccepted, ReadLength, ReadLengthCut, ReadData, RxEof, Callback
    <3>4. RxOK /\ aligned' => RxOK'
      <4>1. CASE RxAccepted
        <5>1. UNCHANGED <<stream, lens, delivered>> /\ listener.pc = "accept"
              /\ listener'.pc \in {"length", "done"}
          BY <4>1 DEF RxAccepted, RxUnchanged, Listener
        <5> QED
          BY <5>1, OthersKeepRx
      <4>2. CASE RxEof
        <5>1. UNCHANGED <<stream, lens, delivered>> /\ listener'.pc = "done"
          BY <4>2 DEF RxEof, RxUnchanged, Listener
        <5> QED
          BY <5>1, OthersKeepRx
      <4> QED
        BY <2>3, <4>1, <4>2, <3>2, ReadLengthKeeps, ReadDataKeeps, CallbackKeeps
           DEF NetThread, RxInv, ReadLengthCut
    <3>3. NotBefore'
      BY <3>1 DEF RxInv, NotBefore
    <3> QED
      BY <2>1, <3>1, <3>2, <3>3, <3>4 DEF RxInv, InStep
  <2>4. ASSUME NEW n \in 0 .. MaxLen + 1, Inject(n) PROVE RxInv'
    <3>1. UNCHANGED <<env, main, listener, aligned>>
      BY <2>4 DEF Inject, mainVars
    <3> QED
      BY <2>1, <2>4, <3>1, InjectKeeps DEF RxInv, NotBefore, InStep
  <2>5. CASE ~TxAccepted /\ ~NetThread /\ ~\E n \in 0 .. MaxLen + 1 : Inject(n)
    <3>1. UNCHANGED <<listener, stream, lens, delivered, env, aligned>>
          /\ (main' \in {"start", "accept"} => main \in {"start", "accept"})
      BY <1>2, <2>5, RxUndisturbed
    <3>2. RxOK => RxOK'
      BY <3>1, OthersKeepRx
    <3> QED
      BY <2>1, <3>1, <3>2 DEF RxInv, NotBefore, InStep
  <2> QED
    BY <2>2, <2>3, <2>4, <2>5
<1> QED
  BY <1>1, <1>2

-----------------------------------------------------------------------------
(***************************************************************************)
(* For every number and every lengths of frames up to the limit, however   *)
(* the reads cut their data and whenever the interface goes: as long as    *)
(* the length words arrive whole, what the listener hands on are the       *)
(* frames with data, whole, each once and in order (net_if.cpp:96-122).    *)
(***************************************************************************)
THEOREM FramesDelivered == Spec => []FramesIntact
<1>1. RxInv => FramesIntact
  BY DEF RxInv, InStep, RxOK, DeliveredOK, FramesIntact
<1> QED
  BY RxInit, RxNext, <1>1, PTL DEF Spec
=============================================================================
