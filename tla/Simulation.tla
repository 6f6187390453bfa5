----------------------------- MODULE Simulation -----------------------------
(***************************************************************************)
(* The life of the SystemC process: sc_main (main.cpp) with NetIf          *)
(* (net_if.cpp) and the socket thread of PcieBridge (pcie_bridge.cpp),     *)
(* from the start to the destructors.  QEMU, the capture tool and the      *)
(* injector come and go; a signal may arrive at any time.  What the NIC    *)
(* does with registers and frames is CoSim's matter; here it matters that  *)
(* it runs, and whether a process of it sleeps with g_reg_mtx held.        *)
(***************************************************************************)
EXTENDS Integers, Sequences, FiniteSets

CONSTANTS
    MaxTries,   \* polls of is_running and connection attempts: 100 each in the code
    MaxLen,     \* the longest frame: 16384 bytes in the code, here in words
    Envs        \* the environments considered, see Environment

Environment ==
    [netif : BOOLEAN,       \* the arguments name a network interface
     qemu : BOOLEAN,        \* a QEMU may come
     frames : Nat,          \* bound: frames the injector sends
     oversize : BOOLEAN,    \* among them such that announce more than MaxLen
     cuts : BOOLEAN,        \* a length word may arrive in pieces
     transmits : BOOLEAN]   \* the guest has the NIC transmit (were process_tx started)

ASSUME SimulationAssumption ==
    MaxTries \in Nat \ {0} /\ MaxLen \in Nat \ {0} /\ Envs \subseteq Environment

VARIABLES
    env,        \* the environment, chosen at the start
    main,       \* where sc_main is
    tries,      \* its polls of is_running
    g_running, handlers,    \* the flag, and whether signals reach it
    qemu, tx_peer, rx_peer, \* "away", then "listening" (QEMU only), "here", "gone"
    listener,   \* the listener thread, with the frame it reads
    rx_running, rx_closed,  \* NetIf::m_running; ~NetIf has closed the sockets
    stream,     \* words the injector has sent and the listener has not read
    aligned,    \* every length read so far has given the whole word
    lens,       \* ghost: lengths of the frames sent
    delivered,  \* ghost: what m_rx_cb has been called with
    sock,       \* the socket thread
    retries,    \* its connection attempts
    fd, shut,   \* m_sock_fd: "none", "open", "closed"; shut down
    b_running,  \* PcieBridge::m_running
    held        \* a suspended SystemC process holds g_reg_mtx

mainVars == <<main, tries, g_running, handlers>>
peerVars == <<qemu, tx_peer, rx_peer>>
rxVars == <<listener, rx_running, rx_closed, stream, aligned, lens, delivered>>
sockVars == <<sock, retries, fd, shut, b_running>>
vars == <<env, mainVars, peerVars, rxVars, sockVars, held>>

Listener(pc) == [pc |-> pc, remain |-> 0, buf |-> <<>>]

Init ==
    /\ env \in Envs
    /\ main = "start" /\ tries = 0 /\ g_running = TRUE /\ handlers = FALSE
    /\ qemu = "away" /\ tx_peer = "away" /\ rx_peer = "away"
    /\ listener = Listener("none") /\ rx_running = FALSE /\ rx_closed = FALSE
    /\ stream = <<>> /\ aligned = TRUE /\ lens = <<>> /\ delivered = <<>>
    /\ sock = "none" /\ retries = 0 /\ fd = "none" /\ shut = FALSE /\ b_running = FALSE
    /\ held = FALSE

Runs == main \notin {"ended", "killed"}

-----------------------------------------------------------------------------
(* sc_main.  NetIf::start returns early when it cannot bind, and sc_main   *)
(* does not look.                                                          *)

NetIfStart ==
    /\ main = "start"
    /\ main' \in IF env.netif THEN {"accept", "signals"} ELSE {"signals"}
    /\ UNCHANGED <<env, tries, g_running, handlers, peerVars, rxVars, sockVars, held>>

\* The capture tool is accepted, and the listener started.
TxAccepted ==
    /\ main = "accept" /\ tx_peer # "away"
    /\ main' = "signals"
    /\ listener' = Listener("accept") /\ rx_running' = TRUE
    /\ UNCHANGED <<env, tries, g_running, handlers, peerVars, rx_closed, stream, aligned,
                   lens, delivered, sockVars, held>>

\* Handlers are registered and the bridge's thread started, if it can be.
StartBridge ==
    /\ main = "signals"
    /\ handlers' = TRUE
    /\ \/ main' = "wait" /\ sock' = "start"
       \/ main' = "delete" /\ UNCHANGED sock
    /\ UNCHANGED <<env, tries, g_running, peerVars, rxVars, retries, fd, shut, b_running, held>>

\* is_running is polled until it is set or the polls run out.
WaitPoll ==
    /\ main = "wait"
    /\ IF ~b_running /\ tries < MaxTries THEN tries' = tries + 1 /\ UNCHANGED main
       ELSE main' = "check" /\ UNCHANGED tries
    /\ UNCHANGED <<env, g_running, handlers, peerVars, rxVars, sockVars, held>>

\* Whatever the polls have said, is_running is asked once more.
WaitCheck ==
    /\ main = "check"
    /\ main' = IF b_running THEN "sim" ELSE "delete"
    /\ UNCHANGED <<env, tries, g_running, handlers, peerVars, rxVars, sockVars, held>>

\* sc_start(1 ms): process_tx sleeps in wait() with the mutex held, which may
\* last beyond the end of the slice.
SimSlice ==
    /\ main = "sim" /\ g_running
    /\ held' \in {FALSE, env.transmits}
    /\ UNCHANGED <<env, mainVars, peerVars, rxVars, sockVars>>

\* Mutant: g_running is read once, before the loop.
SimEndsHoisted == FALSE /\ UNCHANGED vars

SimEnds ==
    /\ main = "sim" /\ ~g_running
    /\ main' = "delete"
    /\ UNCHANGED <<env, tries, g_running, handlers, peerVars, rxVars, sockVars, held>>

\* Mutant: ~NetIf does not wait for the listener.
DeleteNetIfDetached ==
    /\ main = "delete"
    /\ rx_running' = FALSE /\ rx_closed' = TRUE
    /\ main' = "nic"
    /\ UNCHANGED <<env, tries, g_running, handlers, peerVars, listener, stream, aligned, lens,
                   delivered, sockVars, held>>

\* ~NetIf: m_running and the sockets, then the thread is joined.  Closing
\* wakes neither accept nor read.
DeleteNetIf ==
    /\ main = "delete"
    /\ rx_running' = FALSE /\ rx_closed' = TRUE
    /\ main' = "join_rx"
    /\ UNCHANGED <<env, tries, g_running, handlers, peerVars, listener, stream, aligned, lens,
                   delivered, sockVars, held>>

JoinRx ==
    /\ main = "join_rx" /\ listener.pc \in {"none", "done"}
    /\ main' = "nic"
    /\ UNCHANGED <<env, tries, g_running, handlers, peerVars, rxVars, sockVars, held>>

\* ~SmartNic, then ~PcieBridge: m_running, shutdown, close, join.
\* Mutant: without the shutdown.
StopBridgeUnshut ==
    /\ main = "nic"
    /\ b_running' = FALSE
    /\ main' = "close"
    /\ UNCHANGED <<env, tries, g_running, handlers, peerVars, rxVars, sock, retries, fd, shut,
                   held>>

\* A socket that is not connected yet cannot be shut down.
StopBridge ==
    /\ main = "nic"
    /\ b_running' = FALSE
    /\ shut' = (fd = "open" /\ sock \in {"read", "handle", "done"})
    /\ main' = IF fd = "open" THEN "close" ELSE "join"
    /\ UNCHANGED <<env, tries, g_running, handlers, peerVars, rxVars, sock, retries, fd, held>>

CloseBridge ==
    /\ main = "close"
    /\ fd' = "closed"
    /\ main' = "join"
    /\ UNCHANGED <<env, tries, g_running, handlers, peerVars, rxVars, sock, retries, shut,
                   b_running, held>>

JoinBridge ==
    /\ main = "join" /\ sock \in {"none", "done"}
    /\ main' = "ended"
    /\ UNCHANGED <<env, tries, g_running, handlers, peerVars, rxVars, sockVars, held>>

Main ==
    \/ NetIfStart \/ TxAccepted \/ StartBridge \/ WaitPoll \/ WaitCheck \/ SimSlice \/ SimEnds
    \/ DeleteNetIf \/ JoinRx \/ StopBridge \/ CloseBridge \/ JoinBridge

-----------------------------------------------------------------------------
(* NetIf::listener_thread.  A frame is a length word and as many data      *)
(* words; read gives what is there, of a length word perhaps only a byte   *)
(* or three, and the code looks only whether it gave anything.             *)

RxUnchanged == UNCHANGED <<env, mainVars, peerVars, rx_closed, lens, sockVars, held>>

RxAccepted ==
    /\ listener.pc = "accept" /\ rx_peer # "away"
    /\ listener' = Listener(IF rx_running /\ ~rx_closed THEN "length" ELSE "done")
    /\ UNCHANGED <<rx_running, stream, aligned, delivered>> /\ RxUnchanged

\* The loop continues with another read, unless the interface is going.
NextRead(pc) == IF rx_closed THEN "done" ELSE pc

\* What a word says when it is read as a length: any number, if it is data or
\* if the reads are no longer in step with the words.
Lengths(w) == IF aligned /\ w.pos = 0 THEN {lens[w.frame]} ELSE 0 .. MaxLen + 1

\* Lengths of 0 and above the limit are passed over, and their data not read.
Begin(n) ==
    listener' = IF n \in 1 .. MaxLen
                THEN [pc |-> NextRead("data"), remain |-> n, buf |-> <<>>]
                ELSE Listener(NextRead("length"))

ReadLength ==
    /\ listener.pc = "length" /\ stream # <<>>
    /\ stream' = Tail(stream)
    /\ \E n \in Lengths(Head(stream)) : Begin(n)
    /\ UNCHANGED <<rx_running, aligned, delivered>> /\ RxUnchanged

\* One to three bytes are taken for the length, over what the variable held
\* before; the rest of the word is read next.
ReadLengthCut ==
    /\ env.cuts /\ listener.pc = "length" /\ stream # <<>> /\ aligned
    /\ aligned' = FALSE
    /\ \E n \in 0 .. MaxLen + 1 : Begin(n)
    /\ UNCHANGED <<rx_running, stream, delivered>> /\ RxUnchanged

\* Mutant: takes the first read for the whole frame.
ReadDataOnce ==
    /\ listener.pc = "data" /\ stream # <<>>
    /\ \E r \in 1 .. listener.remain :
          /\ r <= Len(stream)
          /\ stream' = SubSeq(stream, r + 1, Len(stream))
          /\ listener' = [listener EXCEPT !.pc = "callback",
                                          !.buf = @ \o SubSeq(stream, 1, r)]
    /\ UNCHANGED <<rx_running, aligned, delivered>> /\ RxUnchanged

ReadData ==
    /\ listener.pc = "data" /\ stream # <<>>
    /\ \E r \in 1 .. listener.remain :
          /\ r <= Len(stream)
          /\ stream' = SubSeq(stream, r + 1, Len(stream))
          /\ listener' = [pc |-> IF r = listener.remain THEN "callback" ELSE NextRead("data"),
                          remain |-> listener.remain - r,
                          buf |-> listener.buf \o SubSeq(stream, 1, r)]
    /\ UNCHANGED <<rx_running, aligned, delivered>> /\ RxUnchanged

\* The injector has closed its end: the thread ends, in either loop.
RxEof ==
    /\ listener.pc \in {"length", "data"} /\ stream = <<>> /\ rx_peer = "gone"
    /\ listener' = Listener("done")
    /\ rx_running' = (rx_running /\ listener.pc = "length")
    /\ UNCHANGED <<stream, aligned, delivered>> /\ RxUnchanged

\* m_rx_cb, on_packet_rx, needs the register mutex.
Callback ==
    /\ listener.pc = "callback" /\ ~held
    /\ delivered' = Append(delivered, listener.buf)
    /\ listener' = Listener(IF rx_running THEN NextRead("length") ELSE "done")
    /\ UNCHANGED <<rx_running, stream, aligned>> /\ RxUnchanged

NetThread == Runs /\ (RxAccepted \/ ReadLength \/ ReadLengthCut \/ ReadData \/ RxEof \/ Callback)

-----------------------------------------------------------------------------
(* PcieBridge::socket_thread.                                              *)

SockUnchanged == UNCHANGED <<env, mainVars, tx_peer, rx_peer, rxVars, shut, held>>

SockOpen ==
    /\ sock = "start"
    /\ \/ sock' = "connect" /\ fd' = "open"
       \/ sock' = "done" /\ UNCHANGED fd
    /\ UNCHANGED <<qemu, retries, b_running>> /\ SockUnchanged

SockConnect ==
    /\ sock = "connect" /\ qemu = "listening" /\ fd = "open"
    /\ sock' = "read" /\ qemu' = "here" /\ b_running' = TRUE
    /\ UNCHANGED <<retries, fd>> /\ SockUnchanged

SockRetry ==
    /\ sock = "connect" /\ (qemu # "listening" \/ fd = "closed")
    /\ retries' = retries + 1
    /\ IF retries' >= MaxTries THEN sock' = "done" /\ fd' = "closed"
       ELSE UNCHANGED <<sock, fd>>
    /\ UNCHANGED <<qemu, b_running>> /\ SockUnchanged

SockMessage ==
    /\ sock = "read" /\ qemu = "here" /\ fd = "open"
    /\ sock' = "handle"
    /\ UNCHANGED <<qemu, retries, fd, b_running>> /\ SockUnchanged

\* The end of the stream between messages closes the socket and leaves
\* m_running; within one, m_running is cleared and the socket left open.
SockEof ==
    /\ sock = "read" /\ (qemu = "gone" \/ shut)
    /\ sock' = "done"
    /\ \/ fd' = "closed" /\ UNCHANGED b_running
       \/ b_running' = FALSE /\ UNCHANGED fd
    /\ UNCHANGED <<qemu, retries>> /\ SockUnchanged

\* A register callback, which needs the mutex, has returned.
SockHandled ==
    /\ sock = "handle" /\ ~held
    /\ IF b_running /\ fd = "open" THEN sock' = "read" /\ UNCHANGED fd
       ELSE sock' = "done" /\ fd' = "closed"
    /\ UNCHANGED <<qemu, retries, b_running>> /\ SockUnchanged

\* What the thread does of itself; that QEMU sends something is not for it to say.
SockThread == Runs /\ (SockOpen \/ SockConnect \/ SockRetry \/ SockEof \/ SockHandled)

-----------------------------------------------------------------------------
(* The world outside the process.                                          *)

Arrives ==
    /\ \/ env.qemu /\ qemu = "away" /\ qemu' = "listening" /\ UNCHANGED <<tx_peer, rx_peer>>
       \/ main = "accept" /\ tx_peer = "away" /\ tx_peer' = "here" /\ UNCHANGED <<qemu, rx_peer>>
       \/ listener.pc = "accept" /\ rx_peer = "away" /\ rx_peer' = "here"
          /\ UNCHANGED <<qemu, tx_peer>>
    /\ UNCHANGED <<env, mainVars, rxVars, sockVars, held>>

Leaves ==
    /\ \/ qemu \in {"listening", "here"} /\ qemu' = "gone" /\ UNCHANGED <<tx_peer, rx_peer>>
       \/ tx_peer = "here" /\ tx_peer' = "gone" /\ UNCHANGED <<qemu, rx_peer>>
       \/ rx_peer = "here" /\ rx_peer' = "gone" /\ UNCHANGED <<qemu, tx_peer>>
    /\ UNCHANGED <<env, mainVars, rxVars, sockVars, held>>

Inject(n) ==
    /\ rx_peer = "here" /\ Len(lens) < env.frames
    /\ n > MaxLen => env.oversize
    /\ lens' = Append(lens, n)
    /\ stream' = stream \o [k \in 1 .. n + 1 |-> [frame |-> Len(lens) + 1, pos |-> k - 1]]
    /\ UNCHANGED <<env, mainVars, peerVars, listener, rx_running, rx_closed, aligned,
                   delivered, sockVars, held>>

\* SIGINT or SIGTERM.
Signal ==
    /\ IF handlers THEN g_running' = FALSE /\ UNCHANGED main
       ELSE main' = "killed" /\ UNCHANGED g_running
    /\ UNCHANGED <<env, tries, handlers, peerVars, rxVars, sockVars, held>>

\* A write to a peer that has gone, before the thread has noticed: SIGPIPE.
BrokenPipe ==
    /\ \/ fd = "open" /\ qemu = "gone" /\ (main = "sim" \/ listener.pc = "callback")
       \/ main = "sim" /\ env.transmits /\ tx_peer = "gone"
    /\ main' = "killed"
    /\ UNCHANGED <<env, tries, g_running, handlers, peerVars, rxVars, sockVars, held>>

World == Arrives \/ Leaves \/ Signal \/ BrokenPipe \/ \E n \in 0 .. MaxLen + 1 : Inject(n)

Next == Main \/ NetThread \/ SockThread \/ (Runs /\ (World \/ SockMessage))

(***************************************************************************)
(* The three threads run; nobody has to come, to send or to leave.         *)
(***************************************************************************)
Spec == Init /\ [][Next]_vars /\ WF_vars(Main) /\ WF_vars(NetThread) /\ WF_vars(SockThread)

-----------------------------------------------------------------------------
(***************************************************************************)
(* As long as no length announces more than the limit and every length     *)
(* word has arrived whole, the listener delivers the frames that were      *)
(* injected, whole, each once and in order, however the reads cut their    *)
(* data (net_if.cpp:96-122).                                               *)
(***************************************************************************)
FrameWords(f) == [k \in 1 .. lens[f] |-> [frame |-> f, pos |-> k]]

\* The frames with data up to f: a frame with data is the Rank(f)-th of them.
Rank(f) == Cardinality({g \in 1 .. f : lens[g] > 0})
FramesIntact ==
    ~env.oversize /\ aligned =>
        \A i \in DOMAIN delivered :
            \E f \in DOMAIN lens :
                lens[f] > 0 /\ Rank(f) = i /\ delivered[i] = FrameWords(f)

(***************************************************************************)
(* on_packet_rx runs on the listener's thread with the NIC, the bridge and *)
(* the interface in it: none of them is destroyed before the thread is     *)
(* joined (main.cpp:68-71, 123; net_if.cpp:21-30).                         *)
(***************************************************************************)
CallbackSafe == listener.pc = "callback" => main \notin {"nic", "close", "join", "ended"}

(***************************************************************************)
(* Without a network interface a simulation that is signalled ends, while  *)
(* QEMU stays connected: the shutdown wakes the socket thread (main.cpp:   *)
(* 80-82, 114-124; pcie_bridge.cpp:26-36).  Nothing is transmitted, or the *)
(* thread may wait for a mutex that no one will release.  And with no QEMU *)
(* the program gives up, both its loops being bounded (main.cpp:93-109,    *)
(* pcie_bridge.cpp:167-182).                                               *)
(***************************************************************************)
Ended == main \in {"ended", "killed"}
SignalStops == ~env.transmits => (main = "sim" /\ ~g_running ~> Ended)
GivesUp == [](qemu = "away") => <>Ended
StopsAlone == ~env.netif => SignalStops /\ GivesUp

(***************************************************************************)
(* With the interface too, once the injector has come and left again and   *)
(* QEMU has closed the connection (or never opens it), whenever the signal *)
(* comes (net_if.cpp:21-30, 85-122).                                       *)
(***************************************************************************)
Stops ==
    ~env.transmits =>
        (<>[](rx_peer = "gone" /\ qemu \in {"away", "gone"})
            => (~g_running ~> Ended))

(***************************************************************************)
(* main.cpp:80, "Register signal handler for clean shutdown".              *)
(***************************************************************************)
CleanShutdown == ~g_running ~> Ended

(***************************************************************************)
(* No register callback runs on a NIC that has been destroyed (main.cpp:   *)
(* 54-59).                                                                 *)
(***************************************************************************)
RegisterSafe == sock = "handle" => main \notin {"close", "join", "ended"}
=============================================================================
