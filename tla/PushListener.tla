---------------------------- MODULE PushListener ----------------------------
(***************************************************************************)
(* The MQTT listener of push.py as the threads see it: its own thread, the *)
(* executor thread that runs stop(), and one network thread per Paho       *)
(* client.  They share _mqtt_client, _stop_event and _connected_event      *)
(* without a lock.                                                         *)
(*                                                                         *)
(* A Paho client is external: loop_stop() joins its network thread and has *)
(* no effect when there is none; disconnect() makes the thread end, but    *)
(* before loop_start() it has no effect on a connect() that is under way,  *)
(* and a broker's answer may undo it once the socket is open; a network    *)
(* thread reconnects by itself when the connection is lost.                *)
(***************************************************************************)
EXTENDS Integers

CONSTANTS
  Clients,      \* Paho clients; a closed one is reused as a new one
  None,         \* no client
  MaxBackoff    \* 300 in the code

ASSUME NoneIsNoClient == None \notin Clients
ASSUME BackoffIsPositive == MaxBackoff \in Nat \ {0}

Threads == {"listener", "stopper"}

VARIABLES
  mqtt,        \* self._mqtt_client
  stop,        \* self._stop_event
  connected,   \* self._connected_event
  fresh,       \* the configuration is valid for five more minutes
  backoff,     \* the local variable of run()
  at,          \* where run() stands
  mine,        \* the local client of _connect
  stopping,    \* where stop() stands
  step,        \* where each thread stands in _disconnect, or "out"
  held,        \* the local client of its _disconnect
  sock,        \* the clients whose socket is open
  loop,        \* the clients whose network thread runs
  accepted,    \* the clients that the broker accepted, is_connected()
  leaving,     \* the clients that disconnect() makes leave
  cut          \* history: clients that stop() met before loop_start()

sharedVars == <<mqtt, stop, connected>>
runVars == <<fresh, backoff, at, mine>>
closeVars == <<step, held>>
clientVars == <<sock, loop, accepted, leaving>>
vars == <<sharedVars, runVars, stopping, closeVars, clientVars, cut>>

Init ==
  /\ mqtt = None /\ stop = FALSE /\ connected = FALSE
  /\ fresh = FALSE /\ backoff = 1 /\ at = "check" /\ mine = None
  /\ stopping = "no"
  /\ step = [t \in Threads |-> "out"] /\ held = [t \in Threads |-> None]
  /\ sock = {} /\ loop = {} /\ accepted = {} /\ leaving = {} /\ cut = {}

Ended == at = "ended" /\ step["listener"] = "out"

\* stop() is inside _disconnect while run() is inside connect().
Cut(t) == IF t = "stopper" /\ at \in {"open", "start"} THEN cut \cup {mine} ELSE cut

-----------------------------------------------------------------------------
(* _disconnect, run by either thread.                                      *)

Read(t) ==
  /\ step[t] = "read"
  /\ held' = [held EXCEPT ![t] = mqtt]
  /\ step' = [step EXCEPT ![t] = "clear"]
  /\ cut' = Cut(t)
  /\ UNCHANGED <<sharedVars, runVars, stopping, clientVars>>

Clear(t) ==
  /\ step[t] = "clear"
  /\ mqtt' = None /\ connected' = FALSE
  /\ step' = [step EXCEPT ![t] = IF held[t] = None THEN "out" ELSE "disconnect"]
  /\ cut' = Cut(t)
  /\ UNCHANGED <<stop, runVars, stopping, held, clientVars>>

\* client.disconnect()
Disconnect(t) ==
  /\ step[t] = "disconnect"
  /\ leaving' = leaving \cup ({held[t]} \cap loop)
     \/ leaving' = leaving \cup ({held[t]} \cap sock)
  /\ step' = [step EXCEPT ![t] = "stop loop"]
  /\ cut' = Cut(t)
  /\ UNCHANGED <<sharedVars, runVars, stopping, held, sock, loop, accepted>>

\* client.loop_stop(): joins the network thread when there is one.
LoopStop(t) ==
  /\ step[t] = "stop loop"
  /\ step' = [step EXCEPT ![t] = "out"] /\ held' = [held EXCEPT ![t] = None]
  /\ loop' = loop \ {held[t]} /\ accepted' = accepted \ {held[t]}
  /\ sock' = IF held[t] \in loop \/ held[t] \in leaving THEN sock \ {held[t]} ELSE sock
  /\ leaving' = leaving \ {held[t]}
  /\ connected' = (connected /\ held[t] \notin accepted)
  /\ cut' = Cut(t)
  /\ UNCHANGED <<mqtt, stop, runVars, stopping>>

Disconnecting(t) == Read(t) \/ Clear(t) \/ Disconnect(t) \/ LoopStop(t)

-----------------------------------------------------------------------------
(* run(), _get_mqtt_config and _connect.                                   *)

Runs(where) == at = where /\ step["listener"] = "out"
CallDisconnect == step' = [step EXCEPT !["listener"] = "read"]

\* Mutant: an exception ends the thread.
FailEndsThread ==
  /\ at' = "ended" /\ CallDisconnect
  /\ mine' = None

\* Any exception: close the client, then wait for the backoff.
Fail ==
  /\ at' = "backoff" /\ CallDisconnect
  /\ mine' = None

Valid == mqtt # None /\ mqtt \in accepted /\ fresh

\* Mutant: the final _disconnect is forgotten.
SeeStopOnly ==
  /\ Runs("check") /\ stop
  /\ at' = "ended"
  /\ UNCHANGED <<sharedVars, fresh, backoff, mine, stopping, closeVars, clientVars, cut>>

\* The test of the loop ends it, and the final _disconnect follows.
SeeStop ==
  /\ Runs("check") /\ stop
  /\ at' = "ended" /\ CallDisconnect
  /\ UNCHANGED <<sharedVars, fresh, backoff, mine, stopping, held, clientVars, cut>>

\* stop() may come between this test and what follows it.
GoOn ==
  /\ Runs("check") /\ ~stop
  /\ at' = "test"
  /\ UNCHANGED <<sharedVars, fresh, backoff, mine, stopping, closeVars, clientVars, cut>>

\* _connection_is_valid returns True.
SeeValid ==
  /\ Runs("test") /\ Valid
  /\ at' = "wait" /\ backoff' = 1
  /\ UNCHANGED <<sharedVars, fresh, mine, stopping, closeVars, clientVars, cut>>

\* Mutant: a client whose configuration has expired is not closed.
SeeInvalidOnly ==
  /\ Runs("test") /\ ~Valid
  /\ at' = "config"
  /\ UNCHANGED <<sharedVars, fresh, backoff, mine, stopping, closeVars, clientVars, cut>>

\* It returns False: the old client is closed before a new one is made.
SeeInvalid ==
  /\ Runs("test") /\ ~Valid
  /\ at' = "config" /\ CallDisconnect
  /\ UNCHANGED <<sharedVars, fresh, backoff, mine, stopping, held, clientVars, cut>>

\* It reads _mqtt_client twice; stop() clears it in between, and the call fails.
ClientGone ==
  /\ Runs("test") /\ stop /\ mqtt = None
  /\ Fail
  /\ UNCHANGED <<sharedVars, fresh, backoff, stopping, held, clientVars, cut>>

\* A lifetime of 300 seconds or less is not even fresh when it is granted.
Configured ==
  /\ Runs("config")
  /\ \E f \in BOOLEAN : fresh' = f
  /\ at' = "connect"
  /\ UNCHANGED <<sharedVars, backoff, mine, stopping, closeVars, clientVars, cut>>

NotConfigured ==
  /\ Runs("config")
  /\ Fail
  /\ UNCHANGED <<sharedVars, fresh, backoff, stopping, held, clientVars, cut>>

Unused(c) == c \notin {mqtt, held["stopper"]} \cup sock \cup loop

\* _connect as far as the assignment of _mqtt_client, or an invalid URL.
Connect ==
  /\ Runs("connect")
  /\ connected' = FALSE
  /\ \/ \E c \in Clients :
          /\ Unused(c)
          /\ mine' = c /\ mqtt' = c
          /\ cut' = IF step["stopper"] # "out" THEN cut \cup {c} ELSE cut \ {c}
          /\ leaving' = leaving \ {c}
          /\ at' = "open"
          /\ UNCHANGED step
     \/ Fail /\ UNCHANGED <<mqtt, cut, leaving>>
  /\ UNCHANGED <<stop, fresh, backoff, stopping, held, sock, loop, accepted>>

\* client.connect() blocks for as long as the network takes.
OpenSocket ==
  /\ Runs("open")
  /\ sock' = sock \cup {mine}
  /\ at' = "start"
  /\ UNCHANGED <<sharedVars, fresh, backoff, mine, stopping, closeVars, loop,
                 accepted, leaving, cut>>

OpenFails ==
  /\ Runs("open")
  /\ Fail
  /\ UNCHANGED <<sharedVars, fresh, backoff, stopping, held, clientVars, cut>>

\* client.loop_start()
LoopStart ==
  /\ Runs("start")
  /\ loop' = loop \cup {mine}
  /\ at' = "await"
  /\ UNCHANGED <<sharedVars, fresh, backoff, mine, stopping, closeVars, sock,
                 accepted, leaving, cut>>

\* The wait of 15 seconds for _connected_event.
Connected ==
  /\ Runs("await") /\ connected
  /\ at' = "wait" /\ mine' = None /\ backoff' = 1
  /\ UNCHANGED <<sharedVars, fresh, stopping, closeVars, clientVars, cut>>

\* Mutant: the wait has no timeout.
NotConnectedNever ==
  /\ Runs("await") /\ connected
  /\ Fail
  /\ UNCHANGED <<sharedVars, fresh, backoff, stopping, held, clientVars, cut>>

NotConnected ==
  /\ Runs("await")
  /\ Fail
  /\ UNCHANGED <<sharedVars, fresh, backoff, stopping, held, clientVars, cut>>

Waited ==
  /\ Runs("wait")
  /\ at' = "check"
  /\ UNCHANGED <<sharedVars, fresh, backoff, mine, stopping, closeVars, clientVars, cut>>

\* Mutant: the backoff is not bounded.
BackedOffLonger ==
  /\ Runs("backoff")
  /\ at' = "check"
  /\ backoff' = 2 * backoff
  /\ UNCHANGED <<sharedVars, fresh, mine, stopping, closeVars, clientVars, cut>>

BackedOff ==
  /\ Runs("backoff")
  /\ at' = "check"
  /\ backoff' = IF 2 * backoff < MaxBackoff THEN 2 * backoff ELSE MaxBackoff
  /\ UNCHANGED <<sharedVars, fresh, mine, stopping, closeVars, clientVars, cut>>

Run ==
  \/ SeeStop \/ GoOn \/ SeeValid \/ SeeInvalid \/ ClientGone
  \/ Configured \/ NotConfigured \/ Connect
  \/ OpenSocket \/ OpenFails \/ LoopStart \/ Connected \/ NotConnected \/ Waited \/ BackedOff

-----------------------------------------------------------------------------
(* stop(), in an executor thread of Home Assistant.                        *)

Stop ==
  /\ stopping = "no"
  /\ stopping' = "closing" /\ stop' = TRUE
  /\ step' = [step EXCEPT !["stopper"] = "read"]
  /\ UNCHANGED <<mqtt, connected, runVars, held, clientVars, cut>>

\* join(timeout=10) returns when run() has ended, or without it.
Joined ==
  /\ stopping = "closing" /\ step["stopper"] = "out"
  /\ stopping' = "returned"
  /\ UNCHANGED <<sharedVars, runVars, closeVars, clientVars, cut>>

-----------------------------------------------------------------------------
(* The network threads, the broker and the clock.                          *)

\* _on_connect with reason 0; a rejected connection changes nothing.
Accept(c) ==
  /\ c \in (loop \cap sock) \ (accepted \cup leaving)
  /\ accepted' = accepted \cup {c} /\ connected' = TRUE
  /\ UNCHANGED <<mqtt, stop, runVars, stopping, closeVars, sock, loop, leaving, cut>>

\* _on_disconnect; Paho will try again by itself.
Drop(c) ==
  /\ c \in accepted
  /\ accepted' = accepted \ {c} /\ connected' = FALSE
  /\ UNCHANGED <<mqtt, stop, runVars, stopping, closeVars, sock, loop, leaving, cut>>

\* A network thread whose client was disconnected ends.
LoopEnds(c) ==
  /\ c \in loop \cap leaving
  /\ loop' = loop \ {c} /\ sock' = sock \ {c} /\ accepted' = accepted \ {c}
  /\ connected' = (connected /\ c \notin accepted)
  /\ UNCHANGED <<mqtt, stop, runVars, stopping, closeVars, leaving, cut>>

ConfigAges ==
  /\ fresh
  /\ fresh' = FALSE
  /\ UNCHANGED <<sharedVars, backoff, at, mine, stopping, closeVars, clientVars, cut>>

Next ==
  \/ \E t \in Threads : Disconnecting(t)
  \/ Run
  \/ Stop
  \/ Joined
  \/ \E c \in Clients : Accept(c) \/ Drop(c) \/ LoopEnds(c)
  \/ ConfigAges

Spec == Init /\ [][Next]_vars

\* Threads are scheduled; Tuya and the broker answer, and in time, now and then.
FairSpec ==
  /\ Spec
  /\ \A t \in Threads : WF_vars(Disconnecting(t))
  /\ WF_vars(Run) /\ WF_vars(Joined)
  /\ SF_vars(Configured) /\ SF_vars(Connect /\ at' = "open") /\ SF_vars(OpenSocket)
  /\ \A c \in Clients : SF_vars(Runs("await") /\ Accept(c))

-----------------------------------------------------------------------------
TypeOK ==
  /\ mqtt \in Clients \cup {None} /\ stop \in BOOLEAN /\ connected \in BOOLEAN
  /\ fresh \in BOOLEAN /\ backoff \in 1 .. MaxBackoff
  /\ at \in {"check", "test", "config", "connect", "open", "start", "await", "wait",
             "backoff", "ended"}
  /\ mine \in Clients \cup {None} /\ stopping \in {"no", "closing", "returned"}
  /\ step \in [Threads -> {"out", "read", "clear", "disconnect", "stop loop"}]
  /\ held \in [Threads -> Clients \cup {None}]
  /\ sock \subseteq Clients /\ loop \subseteq Clients /\ accepted \subseteq Clients
  /\ leaving \subseteq Clients /\ cut \subseteq Clients

\* Clients that receive messages, or will.
Alive == loop \ leaving

\* Messages come through one connection at most, and until stop() is called the
\* listener knows it or is closing it, so that no event is delivered twice.  The only
\* other one that there can ever be is one client that stop() met while run() was
\* connecting it (push.py:57-90, 144-165).
OneConnection ==
  /\ \A c, d \in Alive \ cut : d = c
  /\ \A c, d \in Alive \cap cut : d = c
  /\ ~stop => \A c \in Alive :
                /\ c \notin cut
                /\ c = mqtt \/ (step["listener"] # "out" /\ c = held["listener"])

\* Until stop() is called, the wait for a connection is never ended by an older
\* client's event (push.py:126, 149, 181, 192).
WaitIsHonest == ~stop /\ at = "await" /\ connected => mine \in accepted

\* When both threads are through, only a client that stop() met before its
\* network thread ran can still be connected (push.py:85-90, 144-148).
OnlyCutClientsSurvive == Ended /\ stopping = "returned" => Alive \subseteq cut

\* The listener comes back, whatever fails (README.md:30).
ReconnectsInTheEnd == ~stop ~> (stop \/ (mqtt # None /\ mqtt \in accepted))

\* After stop() the thread ends and stop() returns.
StopEnds == stop ~> (Ended /\ stopping = "returned")

\* push.py:86: stop() stops MQTT.
NoClientSurvives == Ended /\ stopping = "returned" => Alive = {}
=============================================================================
