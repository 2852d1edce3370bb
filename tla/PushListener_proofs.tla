------------------------- MODULE PushListener_proofs -------------------------
(***************************************************************************)
(* Proofs about PushListener for every set of clients and bound of the     *)
(* backoff.                                                                *)
(*                                                                         *)
(* Three threads share _mqtt_client and _connected_event without a lock.   *)
(* The invariant says where a client that is connected, or will be, is     *)
(* known: nothing forgets one that stop() did not meet while run() was     *)
(* connecting it.                                                          *)
(***************************************************************************)
EXTENDS PushListener, TLAPS

Connecting == {"open", "start", "await"}
Holding == {"clear", "disconnect", "stop loop"}

\* The local variable of _disconnect, and what may have become of the shared one
\* since it was read.
CloseInv ==
  \A t \in Threads :
    /\ step[t] \in {"out", "read"} => held[t] = None
    /\ step[t] = "clear" => mqtt \in {held[t], None} \cup cut

StopInv ==
  /\ stop <=> stopping # "no"
  /\ stopping # "closing" => step["stopper"] = "out"
  /\ ~stop => cut = {}

\* run() makes a client only when it has closed the last one, and then looks after
\* nothing else until it is connected.
RunInv ==
  /\ at \in Connecting => step["listener"] = "out" /\ mine \in Clients
  /\ at \in {"open", "start"} => mine = mqtt \/ mine \in cut
  /\ at \in {"config", "connect", "ended"} /\ step["listener"] \notin {"read", "clear"} =>
       mqtt = None
  /\ step["listener"] \in {"disconnect", "stop loop"} => mqtt = None
  /\ ~stop /\ at \in Connecting => mine = mqtt /\ (connected => mine \in accepted)

Tracked(c) ==
  \/ c = mqtt
  \/ c \in cut
  \/ \E t \in Threads : step[t] \in Holding /\ c = held[t]

Inv ==
  /\ TypeOK /\ CloseInv /\ StopInv /\ RunInv
  /\ \A c \in Alive : Tracked(c)

-----------------------------------------------------------------------------
LEMMA InitInv == Init => Inv
<1> SUFFICES ASSUME Init PROVE Inv
  OBVIOUS
<1>1. TypeOK
  <2>1. backoff \in 1 .. MaxBackoff
    BY BackoffIsPositive DEF Init
  <2>2. stop \in BOOLEAN /\ connected \in BOOLEAN /\ fresh \in BOOLEAN
    BY Zenon DEF Init
  <2> QED  BY <2>1, <2>2 DEF Init, TypeOK
<1>2. CloseInv
  BY DEF Init, CloseInv
<1>3. StopInv
  BY Zenon DEF Init, StopInv, Threads
<1>4. RunInv
  BY DEF Init, RunInv, Connecting
<1> QED  BY <1>1, <1>2, <1>3, <1>4 DEF Init, Inv, Alive

-----------------------------------------------------------------------------
(* _disconnect.                                                            *)

\* The other thread has come this far, if it runs _disconnect, too.
LEMMA CutGrows ==
  ASSUME TypeOK, RunInv, NEW t \in Threads
  PROVE  /\ cut \subseteq Cut(t) /\ Cut(t) \subseteq Clients
         /\ t = "stopper" /\ at \in {"open", "start"} => mine \in Cut(t)
         /\ t = "listener" => Cut(t) = cut
BY DEF TypeOK, RunInv, Cut, Connecting

LEMMA ReadKeepsInv == ASSUME Inv, NEW t \in Threads, Read(t) PROVE Inv'
<1> USE DEF sharedVars, runVars, clientVars
<1>1. cut \subseteq cut' /\ cut' \subseteq Clients /\ (t = "listener" => cut' = cut)
  BY CutGrows DEF Inv, Read
<1>2. TypeOK'
  BY <1>1 DEF Inv, TypeOK, Read
<1>3. CloseInv'
  BY <1>1 DEF Inv, TypeOK, CloseInv, Read
<1>4. StopInv'
  BY <1>1 DEF Inv, TypeOK, StopInv, Read, Threads
<1>5. RunInv'
  BY <1>1 DEF Inv, TypeOK, RunInv, Read, Connecting, Threads
<1>6. ASSUME NEW c \in Alive' PROVE Tracked(c)'
  <2>1. Tracked(c)
    BY <1>6 DEF Inv, Alive, Read
  <2> QED  BY <1>1, <2>1 DEF Inv, TypeOK, Tracked, Read, Holding
<1> QED  BY <1>2, <1>3, <1>4, <1>5, <1>6 DEF Inv

LEMMA ClearKeepsInv == ASSUME Inv, NEW t \in Threads, Clear(t) PROVE Inv'
<1> USE DEF sharedVars, runVars, clientVars
<1>1. /\ cut \subseteq cut' /\ cut' \subseteq Clients /\ (t = "listener" => cut' = cut)
      /\ t = "stopper" /\ at \in {"open", "start"} => mine \in cut'
  BY CutGrows DEF Inv, Clear
<1>2. /\ mqtt' = None /\ step[t] = "clear"
      /\ step' = [step EXCEPT ![t] = IF held[t] = None THEN "out" ELSE "disconnect"]
      /\ UNCHANGED <<stop, fresh, backoff, at, mine, stopping, held, sock, loop, accepted,
                     leaving>>
      /\ connected' = FALSE
  BY DEF Clear
<1>3. TypeOK'
  BY <1>1, <1>2 DEF Inv, TypeOK
<1>4. CloseInv'
  BY <1>1, <1>2 DEF Inv, TypeOK, CloseInv
<1>5. StopInv'
  BY <1>1, <1>2 DEF Inv, TypeOK, StopInv, Threads
<1>6. RunInv'
  <2>1. CASE t = "listener"
    BY <1>1, <1>2, <2>1 DEF Inv, TypeOK, RunInv, Connecting, Threads
  <2>2. CASE t = "stopper"
    BY <1>1, <1>2, <2>2 DEF Inv, TypeOK, RunInv, StopInv, Connecting, Threads
  <2> QED  BY <2>1, <2>2 DEF Threads
<1>7. ASSUME NEW c \in Alive' PROVE Tracked(c)'
  <2>1. Tracked(c) /\ c # None
    BY <1>2, <1>7, NoneIsNoClient DEF Inv, TypeOK, Alive
  <2>2. CASE c = mqtt
    <3>1. c \in cut \/ c = held[t]
      BY <1>2, <2>1, <2>2 DEF Inv, CloseInv
    <3> QED  BY <1>1, <1>2, <2>1, <3>1 DEF Inv, TypeOK, Tracked, Holding
  <2>3. CASE c # mqtt
    BY <1>1, <1>2, <2>1, <2>3 DEF Inv, TypeOK, Tracked, Holding
  <2> QED  BY <2>2, <2>3
<1> QED  BY <1>3, <1>4, <1>5, <1>6, <1>7 DEF Inv

\* disconnect() and loop_stop() of Paho: a client that they have closed is not
\* alive, whatever the broker still says.
LEMMA CloseKeepsInv ==
  ASSUME Inv, NEW t \in Threads, Disconnect(t) \/ LoopStop(t)
  PROVE  Inv'
<1> USE DEF sharedVars, runVars
<1>1. cut \subseteq cut' /\ cut' \subseteq Clients /\ (t = "listener" => cut' = cut)
  BY CutGrows DEF Inv, Disconnect, LoopStop
<1>2. /\ step[t] \in {"disconnect", "stop loop"} /\ step'[t] \in {"stop loop", "out"}
      /\ step' \in [Threads -> {"out", "read", "clear", "disconnect", "stop loop"}]
      /\ \A u \in Threads \ {t} : UNCHANGED <<step[u], held[u]>>
      /\ UNCHANGED <<mqtt, stop, fresh, backoff, at, mine, stopping>>
  BY DEF Disconnect, LoopStop, Inv, TypeOK
<1>3. \/ step'[t] = "stop loop" /\ held' = held
      \/ step'[t] = "out" /\ held' = [held EXCEPT ![t] = None]
  BY DEF Disconnect, LoopStop, Inv, TypeOK
<1>4. connected' \in BOOLEAN /\ (connected' => connected)
  <2>1. CASE Disconnect(t)
    BY <2>1 DEF Disconnect, Inv, TypeOK
  <2>2. CASE LoopStop(t)
    BY <2>2, Zenon DEF LoopStop
  <2> QED  BY <2>1, <2>2
<1>5. TypeOK'
  <2>1. /\ held' \in [Threads -> Clients \cup {None}] /\ leaving' \subseteq Clients
        /\ sock' \subseteq Clients /\ loop' \subseteq Clients /\ accepted' \subseteq Clients
    BY <1>3 DEF Disconnect, LoopStop, Inv, TypeOK
  <2> QED  BY <1>1, <1>2, <1>4, <2>1 DEF Inv, TypeOK
<1>6. CloseInv'
  BY <1>1, <1>2, <1>3 DEF Inv, TypeOK, CloseInv
<1>7. StopInv'
  BY <1>1, <1>2 DEF Inv, TypeOK, StopInv, Threads
<1>8. RunInv'
  <2>1. ~stop /\ at \in Connecting => FALSE
    BY <1>2 DEF Inv, StopInv, RunInv, Threads
  <2> QED  BY <1>1, <1>2, <2>1 DEF Inv, RunInv, StopInv, Connecting, Threads
<1>9. ASSUME NEW c \in Alive' PROVE Tracked(c)'
  <2>1. Tracked(c) /\ (step'[t] = "out" => c # held[t])
    BY <1>2, <1>9 DEF Inv, TypeOK, Alive, Disconnect, LoopStop
  <2> QED  BY <1>1, <1>2, <1>3, <2>1 DEF Inv, TypeOK, Tracked, Holding
<1> QED  BY <1>5, <1>6, <1>7, <1>8, <1>9 DEF Inv

-----------------------------------------------------------------------------
(* run().                                                                  *)

\* Whatever makes run() close its client.
LEMMA ClosingKeepsInv ==
  ASSUME Inv, step["listener"] = "out", CallDisconnect,
         at' \in {"config", "backoff", "ended"}, mine' \in {mine, None},
         connected' \in {connected, FALSE},
         UNCHANGED <<mqtt, stop, fresh, backoff, stopping, held, sock, loop, accepted,
                     leaving, cut>>
  PROVE  Inv'
<1>1. step' = [step EXCEPT !["listener"] = "read"] /\ "listener" \in Threads
  BY DEF CallDisconnect, Threads
<1>2. TypeOK'
  <2>1. connected' \in BOOLEAN
    BY DEF Inv, TypeOK
  <2> QED  BY <1>1, <2>1 DEF Inv, TypeOK
<1>3. CloseInv'
  BY <1>1 DEF Inv, TypeOK, CloseInv
<1>4. StopInv'
  BY <1>1 DEF Inv, TypeOK, StopInv, Threads
<1>5. RunInv'
  BY <1>1 DEF Inv, TypeOK, RunInv, Connecting
<1>6. ASSUME NEW c \in Alive' PROVE Tracked(c)'
  BY <1>1, <1>6 DEF Inv, TypeOK, Alive, Tracked, Holding
<1> QED  BY <1>2, <1>3, <1>4, <1>5, <1>6 DEF Inv

\* The tests and waits of run(), and the configuration.
LEMMA GoingOnKeepsInv ==
  ASSUME Inv, step["listener"] = "out",
         at' \in {"check", "test", "connect", "wait"}, at' = "connect" => at = "config",
         mine' \in {mine, None}, fresh' \in BOOLEAN, backoff' \in 1 .. MaxBackoff,
         UNCHANGED <<mqtt, stop, connected, stopping, step, held, sock, loop, accepted,
                     leaving, cut>>
  PROVE  Inv'
<1>1. TypeOK'
  BY DEF Inv, TypeOK
<1>2. CloseInv' /\ StopInv'
  BY DEF Inv, CloseInv, StopInv
<1>3. RunInv'
  BY DEF Inv, RunInv, Connecting
<1>4. ASSUME NEW c \in Alive' PROVE Tracked(c)'
  BY <1>4 DEF Inv, Alive, Tracked
<1> QED  BY <1>1, <1>2, <1>3, <1>4 DEF Inv

\* A new client: the last one has been closed, and stop() will close this one,
\* unless it is closing already.
LEMMA ConnectKeepsInv ==
  ASSUME Inv, NEW c \in Clients, Runs("connect"), Unused(c),
         connected' = FALSE, mine' = c, mqtt' = c, at' = "open",
         cut' = IF step["stopper"] # "out" THEN cut \cup {c} ELSE cut \ {c},
         leaving' = leaving \ {c},
         UNCHANGED <<stop, fresh, backoff, stopping, step, held, sock, loop, accepted>>
  PROVE  Inv'
<1>1. step["listener"] = "out" /\ at = "connect" /\ c \notin loop
  BY DEF Runs, Unused
<1>2. mqtt = None
  BY <1>1 DEF Inv, RunInv
<1>3. TypeOK'
  BY DEF Inv, TypeOK
<1>4. CloseInv'
  BY <1>1 DEF Inv, CloseInv, Threads
<1>5. StopInv'
  BY DEF Inv, StopInv
<1>6. RunInv'
  BY <1>1 DEF Inv, RunInv, Connecting
<1>7. ASSUME NEW d \in Alive' PROVE Tracked(d)'
  <2>1. d \in Alive /\ d # c /\ d # None
    BY <1>1, <1>7, NoneIsNoClient DEF Alive, Inv, TypeOK
  <2> QED  BY <1>2, <2>1 DEF Inv, Tracked
<1> QED  BY <1>3, <1>4, <1>5, <1>6, <1>7 DEF Inv

LEMMA OpenKeepsInv == ASSUME Inv, OpenSocket \/ LoopStart PROVE Inv'
<1> USE DEF sharedVars, closeVars, Runs
<1>1. /\ at \in {"open", "start"} /\ at' \in {"start", "await"} /\ (at = "open" => at' = "start")
      /\ mine \in Clients /\ (mine = mqtt \/ mine \in cut)
      /\ sock' \in {sock, sock \cup {mine}} /\ loop' \in {loop, loop \cup {mine}}
      /\ UNCHANGED <<mqtt, stop, connected, fresh, backoff, mine, stopping, step, held,
                     accepted, leaving, cut>>
  BY DEF OpenSocket, LoopStart, Inv, RunInv, Connecting
<1>2. TypeOK'
  BY <1>1 DEF Inv, TypeOK
<1>3. CloseInv' /\ StopInv'
  BY <1>1 DEF Inv, CloseInv, StopInv
<1>4. RunInv'
  BY <1>1 DEF Inv, RunInv, Connecting
<1>5. ASSUME NEW c \in Alive' PROVE Tracked(c)'
  <2>1. c \in Alive \/ c = mine
    BY <1>1, <1>5 DEF Alive
  <2> QED  BY <1>1, <2>1 DEF Inv, Tracked
<1> QED  BY <1>2, <1>3, <1>4, <1>5 DEF Inv

LEMMA RunKeepsInv == ASSUME Inv, Run PROVE Inv'
<1> USE DEF sharedVars, closeVars, clientVars, Runs
<1>1. fresh \in BOOLEAN /\ backoff \in 1 .. MaxBackoff /\ connected \in BOOLEAN
  BY DEF Inv, TypeOK
<1>2. CASE SeeStop \/ SeeInvalid
  BY <1>2, ClosingKeepsInv DEF SeeStop, SeeInvalid
<1>3. CASE ClientGone \/ NotConfigured \/ OpenFails \/ NotConnected
  BY <1>3, ClosingKeepsInv DEF ClientGone, NotConfigured, OpenFails, NotConnected, Fail
<1>4. CASE GoOn \/ Configured \/ Waited
  BY <1>1, <1>4, GoingOnKeepsInv DEF GoOn, Configured, Waited
<1>5. CASE SeeValid \/ Connected
  <2>1. 1 \in 1 .. MaxBackoff
    BY BackoffIsPositive
  <2> QED  BY <1>1, <1>5, <2>1, GoingOnKeepsInv DEF SeeValid, Connected
<1>6. CASE BackedOff
  <2>1. backoff' \in 1 .. MaxBackoff
    BY <1>1, <1>6, BackoffIsPositive DEF BackedOff
  <2> QED  BY <1>1, <1>6, <2>1, GoingOnKeepsInv DEF BackedOff
<1>7. CASE Connect
  <2>1. ASSUME NEW c \in Clients, Unused(c), mine' = c, mqtt' = c,
               cut' = IF step["stopper"] # "out" THEN cut \cup {c} ELSE cut \ {c},
               leaving' = leaving \ {c}, at' = "open", UNCHANGED step
        PROVE  Inv'
    BY <1>7, <2>1, ConnectKeepsInv DEF Connect
  <2>2. CASE Fail /\ UNCHANGED <<mqtt, cut, leaving>>
    BY <1>7, <2>2, ClosingKeepsInv DEF Connect, Fail
  <2> QED  BY <1>7, <2>1, <2>2 DEF Connect
<1>8. CASE OpenSocket \/ LoopStart
  BY <1>8, OpenKeepsInv
<1> QED  BY <1>2, <1>3, <1>4, <1>5, <1>6, <1>7, <1>8 DEF Run

-----------------------------------------------------------------------------
(* stop(), and the network threads.                                        *)

LEMMA StopKeepsInv == ASSUME Inv, Stop \/ Joined PROVE Inv'
<1> USE DEF sharedVars, runVars, clientVars, closeVars
<1>1. "stopper" \in Threads /\ "listener" \in Threads /\ "stopper" # "listener"
  BY DEF Threads
<1>2. CASE Stop
  <2>1. step["stopper"] = "out"
    BY <1>2 DEF Stop, Inv, StopInv
  <2>2. TypeOK'
    BY <1>1, <1>2 DEF Stop, Inv, TypeOK
  <2>3. CloseInv'
    BY <1>1, <1>2, <2>1 DEF Stop, Inv, TypeOK, CloseInv
  <2>4. StopInv'
    BY <1>2 DEF Stop, StopInv
  <2>5. RunInv'
    BY <1>1, <1>2 DEF Stop, Inv, TypeOK, RunInv
  <2>6. ASSUME NEW c \in Alive' PROVE Tracked(c)'
    BY <1>2, <2>1, <2>6 DEF Stop, Inv, TypeOK, Alive, Tracked, Holding
  <2> QED  BY <2>2, <2>3, <2>4, <2>5, <2>6 DEF Inv
<1>3. CASE Joined
  BY <1>3
     DEF Joined, Inv, TypeOK, CloseInv, StopInv, RunInv, Alive, Tracked
<1> QED  BY <1>2, <1>3

\* Before stop() is called only the client of run() can be accepted while run()
\* waits for it.
LEMMA NetworkKeepsInv ==
  ASSUME Inv, NEW c \in Clients, Accept(c) \/ Drop(c) \/ LoopEnds(c)
  PROVE  Inv'
<1> USE DEF runVars, closeVars
<1>1. UNCHANGED <<mqtt, stop, fresh, backoff, at, mine, stopping, step, held, leaving, cut>>
  BY DEF Accept, Drop, LoopEnds
<1>2. connected' \in BOOLEAN
  <2>1. CASE Accept(c) \/ Drop(c)
    BY <2>1, Zenon DEF Accept, Drop
  <2>2. CASE LoopEnds(c)
    BY <2>2, Zenon DEF LoopEnds
  <2> QED  BY <2>1, <2>2
<1>3. loop' \subseteq loop /\ sock' \subseteq sock /\ accepted' \subseteq Clients
  BY DEF Accept, Drop, LoopEnds, Inv, TypeOK
<1>4. TypeOK'
  BY <1>1, <1>2, <1>3 DEF Inv, TypeOK
<1>5. CloseInv' /\ StopInv'
  BY <1>1 DEF Inv, CloseInv, StopInv
<1>6. RunInv'
  <2>1. ASSUME ~stop, at \in Connecting, connected' PROVE mine \in accepted'
    <3>1. mine = mqtt /\ (connected => mine \in accepted) /\ step["listener"] = "out"
      BY <2>1 DEF Inv, RunInv
    <3>2. CASE Accept(c)
      <4>1. Tracked(c)
        BY <3>2 DEF Accept, Inv, Alive
      <4>2. c \notin cut /\ step["stopper"] = "out"
        BY <2>1 DEF Inv, StopInv
      <4>3. c = mine
        BY <3>1, <4>1, <4>2 DEF Tracked, Holding, Threads
      <4> QED  BY <3>2, <4>3 DEF Accept
    <3>3. CASE Drop(c)
      BY <2>1, <3>3 DEF Drop
    <3>4. CASE LoopEnds(c)
      BY <2>1, <3>1, <3>4 DEF LoopEnds
    <3> QED  BY <3>2, <3>3, <3>4
  <2> QED  BY <1>1, <2>1 DEF Inv, RunInv
<1>7. ASSUME NEW d \in Alive' PROVE Tracked(d)'
  BY <1>1, <1>3, <1>7 DEF Inv, Alive, Tracked
<1> QED  BY <1>4, <1>5, <1>6, <1>7 DEF Inv

-----------------------------------------------------------------------------
LEMMA NextInv == Inv /\ [Next]_vars => Inv'
<1> SUFFICES ASSUME Inv, [Next]_vars PROVE Inv'
  OBVIOUS
<1>1. ASSUME NEW t \in Threads, Disconnecting(t) PROVE Inv'
  BY <1>1, ReadKeepsInv, ClearKeepsInv, CloseKeepsInv DEF Disconnecting
<1>2. Run \/ Stop \/ Joined => Inv'
  BY RunKeepsInv, StopKeepsInv
<1>3. ASSUME NEW c \in Clients, Accept(c) \/ Drop(c) \/ LoopEnds(c) PROVE Inv'
  BY <1>3, NetworkKeepsInv
<1>4. ASSUME UNCHANGED <<sharedVars, backoff, at, mine, stopping, closeVars, clientVars, cut>>,
             fresh' \in BOOLEAN
      PROVE  Inv'
  BY <1>4
     DEF sharedVars, closeVars, clientVars, Inv, TypeOK, CloseInv, StopInv, RunInv, Alive,
         Tracked
<1>5. CASE ConfigAges
  <2>1. fresh' \in BOOLEAN
    BY <1>5, Zenon DEF ConfigAges
  <2> QED  BY <1>4, <1>5, <2>1 DEF ConfigAges
<1>6. CASE UNCHANGED vars
  BY <1>4, <1>6 DEF vars, runVars, Inv, TypeOK
<1> QED  BY <1>1, <1>2, <1>3, <1>5, <1>6 DEF Next

-----------------------------------------------------------------------------
(* The clients that the two threads know.                                  *)

\* What stop() leaves in the shared variable it has met or cleared, the two threads
\* do not close different clients but for one that stop() met, and there is one such
\* client at most: run() makes no other when it sees stop().
PairInv ==
  /\ step["stopper"] \in {"disconnect", "stop loop"} => mqtt \in {None} \cup cut
  /\ step["listener"] \in Holding /\ step["stopper"] \in Holding =>
       \/ held["listener"] = held["stopper"]
       \/ None \in {held["listener"], held["stopper"]}
       \/ {held["listener"], held["stopper"]} \cap cut # {}
  /\ cut # {} => at \notin {"test", "config", "connect"}
  /\ at \in {"open", "start"} => cut \subseteq {mine}
  /\ \A c, d \in cut : c = d

LEMMA PairInitInv == Init => PairInv
BY DEF Init, PairInv, Threads, Holding

LEMMA CuttingKeepsOne ==
  ASSUME TypeOK, PairInv, NEW t \in Threads
  PROVE  /\ cut \subseteq Cut(t)
         /\ Cut(t) # {} => at \notin {"test", "config", "connect"}
         /\ at \in {"open", "start"} => Cut(t) \subseteq {mine}
         /\ \A c, d \in Cut(t) : c = d
BY DEF TypeOK, PairInv, Cut

LEMMA ClosingKeepsPair ==
  ASSUME Inv, PairInv, NEW t \in Threads, Disconnecting(t)
  PROVE  PairInv'
<1> USE DEF sharedVars, runVars, clientVars
<1>1. TypeOK /\ CloseInv /\ RunInv /\ StopInv
  BY DEF Inv
<1>2. /\ cut' = Cut(t) /\ UNCHANGED <<at, mine, stop>>
      /\ "listener" \in Threads /\ "stopper" \in Threads /\ "listener" # "stopper"
      /\ \A u \in Threads \ {t} : UNCHANGED <<step[u], held[u]>>
  BY <1>1 DEF Disconnecting, Read, Clear, Disconnect, LoopStop, TypeOK, Threads
<1>3. /\ cut \subseteq cut' /\ (cut' # {} => at' \notin {"test", "config", "connect"})
      /\ at' \in {"open", "start"} => cut' \subseteq {mine'}
      /\ \A c, d \in cut' : c = d
  BY <1>1, <1>2, CuttingKeepsOne
<1>4. step'["stopper"] \in {"disconnect", "stop loop"} => mqtt' \in {None} \cup cut'
  <2>1. CASE Clear(t)
    BY <2>1 DEF Clear
  <2>2. CASE Read(t) \/ Disconnect(t) \/ LoopStop(t)
    BY <1>1, <1>2, <1>3, <2>2 DEF Read, Disconnect, LoopStop, TypeOK, PairInv, Threads
  <2> QED  BY <2>1, <2>2 DEF Disconnecting
<1>5. ASSUME step'["listener"] \in Holding, step'["stopper"] \in Holding
      PROVE  \/ held'["listener"] = held'["stopper"]
             \/ None \in {held'["listener"], held'["stopper"]}
             \/ {held'["listener"], held'["stopper"]} \cap cut' # {}
  <2>1. CASE Clear(t) \/ Disconnect(t)
    BY <1>1, <1>2, <1>3, <1>5, <2>1 DEF Clear, Disconnect, TypeOK, PairInv, Holding, Threads
  <2>2. CASE LoopStop(t)
    BY <1>1, <1>2, <1>5, <2>2 DEF LoopStop, TypeOK, Holding, Threads
  <2>3. CASE Read(t)
    <3>1. held'[t] = mqtt /\ step[t] = "read" /\ mqtt' = mqtt
      BY <1>1, <2>3 DEF Read, TypeOK
    <3>2. CASE t = "listener"
      <4>1. mqtt \in {held["stopper"], None} \cup cut
        BY <1>1, <1>2, <1>5, <3>2 DEF CloseInv, PairInv, Holding
      <4> QED  BY <1>2, <1>3, <3>1, <3>2, <4>1
    <3>3. CASE t = "stopper"
      <4>1. mqtt \in {held["listener"], None} \cup cut
        BY <1>1, <1>2, <1>5, <3>3 DEF CloseInv, RunInv, Holding
      <4> QED  BY <1>2, <1>3, <3>1, <3>3, <4>1
    <3> QED  BY <3>2, <3>3 DEF Threads
  <2> QED  BY <2>1, <2>2, <2>3 DEF Disconnecting
<1> QED  BY <1>3, <1>4, <1>5 DEF PairInv

LEMMA RunKeepsPair == ASSUME Inv, PairInv, Run PROVE PairInv'
<1> USE DEF sharedVars, closeVars, clientVars, Runs
<1> DEFINE
      Made(c) == /\ at = "connect" /\ at' = "open" /\ mine' = c /\ mqtt' = c
                 /\ cut' = IF step["stopper"] # "out" THEN cut \cup {c} ELSE cut \ {c}
                 /\ step["listener"] = "out" /\ UNCHANGED <<step, held>>
      Goes == /\ step["listener"] = "out" /\ step'["listener"] \in {"out", "read"}
              /\ step'["stopper"] = step["stopper"] /\ UNCHANGED <<mqtt, held, cut>>
              /\ at' \in {"test", "config", "connect"} =>
                   ~stop \/ at \in {"test", "config", "connect"}
              /\ at' \in {"open", "start"} => at \in {"open", "start"} /\ mine' = mine
<1>1. /\ TypeOK /\ StopInv
      /\ "listener" \in Threads /\ "stopper" \in Threads /\ "listener" # "stopper"
  BY DEF Inv, Threads
<1>2. ASSUME NEW c \in Clients, Made(c) PROVE PairInv'
  <2>1. cut = {}
    BY <1>2 DEF PairInv
  <2> QED  BY <1>2, <2>1 DEF PairInv, Holding
<1>3. CASE Goes
  BY <1>1, <1>3 DEF StopInv, PairInv, Holding
<1>4. CallDisconnect =>
        step'["listener"] = "read" /\ step'["stopper"] = step["stopper"]
  BY <1>1 DEF CallDisconnect, TypeOK
<1>5. CASE SeeStop \/ GoOn \/ SeeValid \/ SeeInvalid \/ ClientGone
  BY <1>3, <1>4, <1>5 DEF SeeStop, GoOn, SeeValid, SeeInvalid, ClientGone, Fail
<1>6. CASE Configured \/ NotConfigured
  BY <1>3, <1>4, <1>6 DEF Configured, NotConfigured, Fail
<1>7. CASE Connect
  <2>1. CASE Fail /\ UNCHANGED <<mqtt, cut, leaving>>
    BY <1>3, <1>4, <1>7, <2>1 DEF Connect, Fail
  <2>2. CASE \E c \in Clients : Made(c)
    BY <1>2, <2>2
  <2> QED  BY <1>7, <2>1, <2>2 DEF Connect
<1>8. CASE OpenSocket \/ OpenFails \/ LoopStart
  BY <1>3, <1>4, <1>8 DEF OpenSocket, OpenFails, LoopStart, Fail
<1>9. CASE Connected \/ NotConnected \/ Waited \/ BackedOff
  BY <1>3, <1>4, <1>9 DEF Connected, NotConnected, Waited, BackedOff, Fail
<1> QED  BY <1>5, <1>6, <1>7, <1>8, <1>9 DEF Run

LEMMA PairNextInv == Inv /\ PairInv /\ [Next]_vars => PairInv'
<1> SUFFICES ASSUME Inv, PairInv, [Next]_vars PROVE PairInv'
  OBVIOUS
<1> USE DEF sharedVars, closeVars
<1>1. ASSUME NEW t \in Threads, Disconnecting(t) PROVE PairInv'
  BY <1>1, ClosingKeepsPair
<1>2. CASE Run
  BY <1>2, RunKeepsPair
<1>3. CASE Stop
  <2>1. step' = [step EXCEPT !["stopper"] = "read"] /\ UNCHANGED <<mqtt, at, mine, held, cut>>
    BY <1>3 DEF Stop, runVars
  <2>2. step'["stopper"] = "read"
    BY <2>1 DEF Inv, TypeOK, Threads
  <2> QED  BY <2>1, <2>2 DEF PairInv, Holding
<1>4. ASSUME UNCHANGED <<mqtt, at, mine, step, held, cut>> PROVE PairInv'
  BY <1>4 DEF PairInv
<1>5. CASE Joined \/ ConfigAges \/ UNCHANGED vars
  BY <1>4, <1>5 DEF Joined, ConfigAges, vars, runVars
<1>6. ASSUME NEW c \in Clients, Accept(c) \/ Drop(c) \/ LoopEnds(c) PROVE PairInv'
  BY <1>4, <1>6 DEF Accept, Drop, LoopEnds, runVars
<1> QED  BY <1>1, <1>2, <1>3, <1>5, <1>6 DEF Next

\* Whatever a client that can still get messages is known by, it is the same for
\* another one, unless stop() met one of them.
LEMMA InvOneConnection == Inv /\ PairInv => OneConnection
<1> SUFFICES ASSUME Inv, PairInv PROVE OneConnection
  OBVIOUS
<1> DEFINE L == held["listener"]
           S == held["stopper"]
<1>1. \A c \in Alive \ cut : /\ c # None
                            /\ \/ c = mqtt
                               \/ step["listener"] \in Holding /\ c = L
                               \/ step["stopper"] \in Holding /\ c = S
  BY NoneIsNoClient DEF Inv, TypeOK, Alive, Tracked, Threads
<1>2. /\ step["listener"] \in Holding => mqtt \in {L, None} \cup cut
      /\ step["stopper"] \in Holding => mqtt \in {S, None} \cup cut
  BY DEF Inv, CloseInv, RunInv, PairInv, Holding, Threads
<1>3. step["listener"] \in Holding /\ step["stopper"] \in Holding =>
        L = S \/ None \in {L, S} \/ {L, S} \cap cut # {}
  BY DEF PairInv
<1>4. ASSUME NEW c \in Alive \ cut, NEW d \in Alive \ cut PROVE d = c
  BY <1>1, <1>2, <1>3
<1>5. \A c, d \in Alive \cap cut : d = c
  BY DEF PairInv
<1>6. ASSUME ~stop, NEW c \in Alive
      PROVE  c \notin cut /\ (c = mqtt \/ (step["listener"] # "out" /\ c = held["listener"]))
  <2>1. cut = {} /\ step["stopper"] = "out"
    BY <1>6 DEF Inv, StopInv
  <2>2. step["stopper"] \notin Holding /\ "out" \notin Holding
    BY <2>1 DEF Holding
  <2> QED  BY <1>1, <1>6, <2>1, <2>2
<1> QED  BY <1>4, <1>5, <1>6 DEF OneConnection

\* Both threads being through, neither holds a client, and the shared variable is
\* cleared.
LEMMA InvOnlyCut == Inv => OnlyCutClientsSurvive
<1> SUFFICES ASSUME Inv, Ended, stopping = "returned", NEW c \in Alive PROVE c \in cut
  BY DEF OnlyCutClientsSurvive
<1>1. mqtt = None /\ step["listener"] = "out" /\ step["stopper"] = "out"
  BY DEF Inv, RunInv, StopInv, Ended
<1>2. c # None
  BY NoneIsNoClient DEF Inv, TypeOK, Alive
<1> QED  BY <1>1, <1>2 DEF Inv, Tracked, Holding, Threads

\* Every variable keeps its type, and the backoff its bound.
THEOREM TypeCorrect == Spec => []TypeOK
BY InitInv, NextInv, PTL DEF Spec, Inv

\* However the three kinds of threads meet, before stop() and after it, no event is
\* delivered by two connections, except by one client more that stop() met while
\* run() was connecting it.
THEOREM OneConnectionHolds == Spec => []OneConnection
BY InitInv, NextInv, PairInitInv, PairNextInv, InvOneConnection, PTL DEF Spec

\* An older client never ends the wait for a new one.
THEOREM WaitIsHonestHolds == Spec => []WaitIsHonest
<1>1. Inv => WaitIsHonest
  BY DEF Inv, RunInv, Connecting, WaitIsHonest
<1> QED  BY <1>1, InitInv, NextInv, PTL DEF Spec

\* stop() leaves no client but one that it met while run() was connecting it.
THEOREM OnlyCutClientsSurviveHolds == Spec => []OnlyCutClientsSurvive
BY InitInv, NextInv, InvOnlyCut, PTL DEF Spec

-----------------------------------------------------------------------------
(* After stop().                                                           *)

\* The steps that _disconnect still has.
CloseLeft(t) ==
  IF step[t] = "read" THEN 4
  ELSE IF step[t] = "clear" THEN 3
  ELSE IF step[t] = "disconnect" THEN 2
  ELSE IF step[t] = "stop loop" THEN 1 ELSE 0

\* The steps of run() once it is to stop, with the ones of the _disconnect that ends
\* it: its longest way is from the test of an old connection through a new one that
\* is not accepted in time.
RunLeft ==
  IF at = "test" THEN 20
  ELSE IF at = "config" THEN 15
  ELSE IF at = "connect" THEN 14
  ELSE IF at = "open" THEN 13
  ELSE IF at = "start" THEN 12
  ELSE IF at = "await" THEN 11
  ELSE IF at \in {"wait", "backoff"} THEN 6
  ELSE IF at = "check" THEN 5 ELSE 0

ListenerLeft == RunLeft + CloseLeft("listener")
ListenerStep == Run \/ Disconnecting("listener")

\* What stop() still has to do, the join included.
StopperLeft == CloseLeft("stopper") + (IF stopping = "closing" THEN 1 ELSE 0)
StopperStep == Joined \/ Disconnecting("stopper")

\* Once stop() has set its event, each step brings the thread that takes it nearer to
\* its end, and no step of the other thread, of a network thread or of the broker
\* takes one of them back: run() ends within 20 steps of its own, after one more
\* connection at most (push.py:57-90).
StopIsShort ==
  [][stop => /\ ListenerLeft' <= ListenerLeft /\ StopperLeft' <= StopperLeft
             /\ ListenerStep => ListenerLeft' < ListenerLeft
             /\ StopperStep => StopperLeft' < StopperLeft]_vars

LEMMA LeftAreNumbers ==
  /\ RunLeft \in Int /\ RunLeft' \in Int
  /\ \A t : CloseLeft(t) \in Int /\ CloseLeft(t)' \in Int
<1>1. RunLeft \in Int /\ RunLeft' \in Int
  BY DEF RunLeft
<1>2. ASSUME NEW t PROVE CloseLeft(t) \in Int /\ CloseLeft(t)' \in Int
  BY DEF CloseLeft
<1> QED  BY <1>1, <1>2

LEMMA ClosingShortens ==
  ASSUME TypeOK, NEW t \in Threads, Disconnecting(t)
  PROVE  /\ CloseLeft(t)' < CloseLeft(t)
         /\ \A u \in Threads \ {t} : CloseLeft(u)' = CloseLeft(u)
         /\ UNCHANGED <<at, stopping>>
<1>1. /\ step[t] # "out" /\ UNCHANGED <<at, stopping>>
      /\ \/ step[t] = "read" /\ step' = [step EXCEPT ![t] = "clear"]
         \/ step[t] = "clear" /\ step' = [step EXCEPT ![t] = "out"]
         \/ step[t] = "clear" /\ step' = [step EXCEPT ![t] = "disconnect"]
         \/ step[t] = "disconnect" /\ step' = [step EXCEPT ![t] = "stop loop"]
         \/ step[t] = "stop loop" /\ step' = [step EXCEPT ![t] = "out"]
  BY DEF Disconnecting, Read, Clear, Disconnect, LoopStop, runVars
<1>2. \/ step[t] = "read" /\ step'[t] = "clear"
      \/ step[t] = "clear" /\ step'[t] \in {"out", "disconnect"}
      \/ step[t] = "disconnect" /\ step'[t] = "stop loop"
      \/ step[t] = "stop loop" /\ step'[t] = "out"
  BY <1>1 DEF TypeOK
<1>3. CloseLeft(t)' < CloseLeft(t)
  <2>1. CASE step[t] = "read" /\ step'[t] = "clear"
    BY <2>1 DEF CloseLeft
  <2>2. CASE step[t] = "clear" /\ step'[t] \in {"out", "disconnect"}
    BY <2>2 DEF CloseLeft
  <2>3. CASE step[t] = "disconnect" /\ step'[t] = "stop loop"
    <3>1. step'[t] \notin {"read", "clear", "disconnect"}
      BY <2>3
    <3>2. CloseLeft(t) = 2
      BY <2>3 DEF CloseLeft
    <3>3. CloseLeft(t)' = 1
      BY <2>3, <3>1 DEF CloseLeft
    <3> QED  BY <3>2, <3>3
  <2>4. CASE step[t] = "stop loop" /\ step'[t] = "out"
    <3>1. CloseLeft(t)' = 0
      BY <2>4 DEF CloseLeft
    <3>2. step[t] \notin {"read", "clear", "disconnect"}
      BY <2>4
    <3>3. CloseLeft(t) = 1
      BY <2>4, <3>2 DEF CloseLeft
    <3> QED  BY <3>1, <3>3
  <2> QED  BY <1>2, <2>1, <2>2, <2>3, <2>4
<1>4. ASSUME NEW u \in Threads \ {t} PROVE CloseLeft(u)' = CloseLeft(u)
  <2>1. step'[u] = step[u]
    BY <1>1 DEF TypeOK
  <2> QED  BY <2>1 DEF CloseLeft
<1> QED  BY <1>1, <1>3, <1>4

\* Wherever run() stands, it either goes on to a place nearer to its end, or closes
\* its client and waits for the backoff.
LEMMA RunShortens ==
  ASSUME TypeOK, stop, Run
  PROVE  /\ ListenerLeft' < ListenerLeft
         /\ CloseLeft("stopper")' = CloseLeft("stopper") /\ stopping' = stopping
<1> USE DEF Runs, closeVars
<1>1. "listener" \in Threads /\ "stopper" \in Threads /\ "listener" # "stopper"
  BY DEF Threads
<1>2. step["listener"] = "out" /\ stopping' = stopping
  BY DEF Run, SeeStop, GoOn, SeeValid, SeeInvalid, ClientGone, Configured, NotConfigured,
         Connect, OpenSocket, OpenFails, LoopStart, Connected, NotConnected, Waited, BackedOff
<1>3. /\ step' = step
      /\ \/ at = "test" /\ at' = "wait"
         \/ at = "config" /\ at' = "connect"
         \/ at = "connect" /\ at' = "open"
         \/ at = "open" /\ at' = "start"
         \/ at = "start" /\ at' = "await"
         \/ at = "await" /\ at' = "wait"
         \/ at \in {"wait", "backoff"} /\ at' = "check"
      \/
      /\ CallDisconnect
      /\ \/ at = "check" /\ at' = "ended"
         \/ at = "test" /\ at' \in {"config", "backoff"}
         \/ at \in {"config", "connect", "open", "await"} /\ at' = "backoff"
  <2>1. CASE SeeStop \/ GoOn \/ SeeValid \/ SeeInvalid \/ ClientGone
    BY <2>1 DEF SeeStop, GoOn, SeeValid, SeeInvalid, ClientGone, Fail
  <2>2. CASE Configured \/ NotConfigured \/ Connect
    BY <2>2 DEF Configured, NotConfigured, Connect, Fail
  <2>3. CASE OpenSocket \/ OpenFails \/ LoopStart
    BY <2>3 DEF OpenSocket, OpenFails, LoopStart, Fail
  <2>4. CASE Connected \/ NotConnected \/ Waited \/ BackedOff
    BY <2>4 DEF Connected, NotConnected, Waited, BackedOff, Fail
  <2> QED  BY <2>1, <2>2, <2>3, <2>4 DEF Run
<1>4. step'["stopper"] = step["stopper"] /\ step'["listener"] \in {"out", "read"}
      /\ (CallDisconnect => step'["listener"] = "read")
  BY <1>1, <1>2, <1>3 DEF CallDisconnect, TypeOK
<1>5. CloseLeft("listener") = 0 /\ CloseLeft("stopper")' = CloseLeft("stopper")
  BY <1>2, <1>4 DEF CloseLeft
<1>6. CASE step' = step
  <2>1. CloseLeft("listener")' = 0
    BY <1>2, <1>6 DEF CloseLeft
  <2>2. RunLeft' < RunLeft
    BY <1>2, <1>3, <1>4, <1>6 DEF RunLeft
  <2> QED  BY <1>2, <1>5, <2>1, <2>2, LeftAreNumbers DEF ListenerLeft
<1>7. CASE CallDisconnect
  <2>1. CloseLeft("listener")' = 4
    BY <1>4, <1>7 DEF CloseLeft
  <2>2. \/ at = "check" /\ at' = "ended"
        \/ at = "test" /\ at' = "config"
        \/ at \in {"test", "config", "connect", "open", "await"} /\ at' = "backoff"
    BY <1>2, <1>3, <1>4, <1>7
  <2>3. CASE at = "check" /\ at' = "ended"
    <3>1. RunLeft' = 0 /\ RunLeft = 5
      BY <2>3 DEF RunLeft
    <3> QED  BY <1>2, <1>5, <2>1, <3>1 DEF ListenerLeft
  <2>4. CASE at = "test" /\ at' = "config"
    <3>1. RunLeft' = 15 /\ RunLeft = 20
      BY <2>4 DEF RunLeft
    <3> QED  BY <1>2, <1>5, <2>1, <3>1 DEF ListenerLeft
  <2>5. CASE at \in {"test", "config", "connect", "open", "await"} /\ at' = "backoff"
    <3>1. RunLeft' = 6
      BY <2>5 DEF RunLeft
    <3>2. RunLeft \in {20, 15, 14, 13, 11}
      <4>1. at = "test" => RunLeft = 20
        BY DEF RunLeft
      <4>2. at = "config" => RunLeft = 15
        BY DEF RunLeft
      <4>3. at = "connect" => RunLeft = 14
        BY DEF RunLeft
      <4>4. at = "open" => RunLeft = 13
        BY DEF RunLeft
      <4>5. at = "await" => RunLeft = 11
        BY DEF RunLeft
      <4> QED  BY <2>5, <4>1, <4>2, <4>3, <4>4, <4>5
    <3> QED  BY <1>2, <1>5, <2>1, <3>1, <3>2 DEF ListenerLeft
  <2> QED  BY <2>2, <2>3, <2>4, <2>5
<1> QED  BY <1>3, <1>5, <1>2, <1>6, <1>7

LEMMA RestLeavesThem ==
  ASSUME stop, StopInv, [Next]_vars, ~Run, ~Joined, \A t \in Threads : ~Disconnecting(t)
  PROVE  UNCHANGED <<at, step, stopping>>
<1> USE DEF runVars, closeVars
<1>1. ~Stop
  BY DEF Stop, StopInv
<1>2. ASSUME NEW c \in Clients, Accept(c) \/ Drop(c) \/ LoopEnds(c)
      PROVE  UNCHANGED <<at, step, stopping>>
  BY <1>2 DEF Accept, Drop, LoopEnds
<1>3. CASE ConfigAges \/ UNCHANGED vars
  BY <1>3 DEF ConfigAges, vars
<1> QED  BY <1>1, <1>2, <1>3 DEF Next

THEOREM StopIsShortHolds == Spec => StopIsShort
<1> DEFINE Shorter ==
      stop => /\ ListenerLeft' <= ListenerLeft /\ StopperLeft' <= StopperLeft
              /\ ListenerStep => ListenerLeft' < ListenerLeft
              /\ StopperStep => StopperLeft' < StopperLeft
<1>1. ASSUME Inv, [Next]_vars, stop PROVE Shorter
  <2>0. /\ "listener" \in Threads /\ "stopper" \in Threads /\ "listener" # "stopper"
        /\ TypeOK /\ StopInv
    BY <1>1 DEF Threads, Inv
  <2>1. /\ ListenerLeft \in Int /\ StopperLeft \in Int
        /\ ListenerLeft' \in Int /\ StopperLeft' \in Int
    BY LeftAreNumbers DEF ListenerLeft, StopperLeft
  <2>2. CASE Run
    <3>1. /\ ListenerLeft' < ListenerLeft
          /\ CloseLeft("stopper")' = CloseLeft("stopper") /\ stopping' = stopping
      BY <1>1, <2>0, <2>2, RunShortens
    <3>2. ~StopperStep
      BY <2>0, <3>1, LeftAreNumbers, ClosingShortens DEF StopperStep, Joined
    <3> QED  BY <1>1, <2>1, <3>1, <3>2 DEF StopperLeft
  <2>3. CASE Disconnecting("listener")
    <3>1. /\ CloseLeft("listener")' < CloseLeft("listener")
          /\ CloseLeft("stopper")' = CloseLeft("stopper") /\ at' = at /\ stopping' = stopping
      BY <2>0, <2>3, ClosingShortens
    <3>2. ~StopperStep
      BY <2>0, <3>1, LeftAreNumbers, ClosingShortens DEF StopperStep, Joined
    <3>3. RunLeft' = RunLeft
      BY <3>1 DEF RunLeft
    <3> QED  BY <1>1, <2>1, <3>1, <3>2, <3>3, LeftAreNumbers DEF StopperLeft, ListenerLeft
  <2>4. CASE Disconnecting("stopper") /\ ~ListenerStep
    <3>1. /\ CloseLeft("stopper")' < CloseLeft("stopper")
          /\ CloseLeft("listener")' = CloseLeft("listener") /\ at' = at
          /\ stopping' = stopping
      BY <2>0, <2>4, ClosingShortens
    <3>2. RunLeft' = RunLeft
      BY <3>1 DEF RunLeft
    <3> QED  BY <1>1, <2>1, <2>4, <3>1, <3>2, LeftAreNumbers DEF StopperLeft, ListenerLeft
  <2>5. CASE Joined /\ ~ListenerStep
    <3>1. /\ step' = step /\ at' = at /\ stopping = "closing" /\ stopping' = "returned"
      BY <2>5 DEF Joined, runVars, closeVars
    <3>2. /\ RunLeft' = RunLeft /\ CloseLeft("listener")' = CloseLeft("listener")
          /\ CloseLeft("stopper")' = CloseLeft("stopper")
      BY <3>1 DEF RunLeft, CloseLeft
    <3> QED  BY <2>1, <2>5, <3>1, <3>2, LeftAreNumbers DEF StopperLeft, ListenerLeft
  <2>6. CASE ~ListenerStep /\ ~StopperStep
    <3>1. UNCHANGED <<at, step, stopping>>
      BY <1>1, <2>0, <2>6, RestLeavesThem DEF ListenerStep, StopperStep, Threads
    <3>2. ListenerLeft' = ListenerLeft /\ StopperLeft' = StopperLeft
      BY <3>1 DEF ListenerLeft, StopperLeft, RunLeft, CloseLeft
    <3> QED  BY <2>1, <2>6, <3>2
  <2> QED  BY <2>2, <2>3, <2>4, <2>5, <2>6 DEF ListenerStep, StopperStep
<1> QED  BY <1>1, InitInv, NextInv, PTL DEF Spec, StopIsShort
=============================================================================
