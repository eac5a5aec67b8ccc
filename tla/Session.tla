-------------------------------- MODULE Session -------------------------------
(***************************************************************************)
(* The connections of the IPC server (IpcServer): the thread that accepts, *)
(* one thread per client, the telemetry thread, which sends to all clients *)
(* and evicts the ones that do not read, the thread that times the grace   *)
(* period, and stop().  The code knows a connection by its descriptor, and *)
(* a descriptor that was closed is given to the next connection; the model *)
(* keeps both, so that it can say whose descriptor it is.                  *)
(*                                                                         *)
(* A step is what happens under one lock (clients_mu_, grace_mu_) or one   *)
(* system call.  What a run is to the server is one bit: whether it goes   *)
(* on while nobody is connected.                                           *)
(***************************************************************************)
EXTENDS Integers, FiniteSets

CONSTANTS kMaxClients,
          MaxConn,      \* bound: connections in the life of the server
          MaxDrops      \* kSlowClientEvictAfterDrops

ASSUME SessionAssumption ==
  /\ kMaxClients \in Nat \ {0} /\ MaxConn \in Nat \ {0}
  /\ MaxDrops \in Nat \ {0}

Conn == 1 .. MaxConn    \* connections in the order they were accepted
Fd   == 1 .. MaxConn    \* descriptors
None == 0

VARIABLES
  (* The peers and the kernel.                                             *)
  conns,                \* how many connections have been accepted
  owner,                \* the connection a descriptor belongs to
  left, frozen,         \* peers that have gone, and that do not read
  shut,                 \* connections that were shut down
  (* What clients_mu_ and slow_client_mu_ protect.                         *)
  clients, evicted, drops,      \* clients_, evicted_fds_, per_client_drops_
  (* The threads.                                                          *)
  apc, afd,             \* accept: where it is, fd
  cpc, cfd, last, wasEvicted,   \* clients: where, fd, the locals of dropClient
  tpc, tfds, tfd,       \* telemetry: where, the snapshot of sendFrame, fd
  gpc, gracePending, sameEpoch, \* grace: where, grace_pending_, and whether
                        \*   grace_epoch_ is still the one it started with
  mpc, stops, joining,  \* main in stop(): where, the how manieth, ths
  quit,                 \* quit_
  run,                  \* run_req_
  (* History.                                                              *)
  visited,              \* a client came while the period was timed
  late,                 \* descriptors listed since hasClient() saw nobody
  abandoned             \* a connection was closed before it had a thread

peers   == <<conns, owner, left, frozen, shut>>
books   == <<clients, evicted, drops>>
accept  == <<apc, afd>>
client  == <<cpc, cfd, last, wasEvicted>>
sender  == <<tpc, tfds, tfd>>
grace   == <<gpc, gracePending, sameEpoch, visited, late>>
stopper == <<mpc, stops, joining, quit>>
vars    == <<peers, books, accept, client, sender, grace, stopper, run, abandoned>>

TypeOK ==
  /\ conns \in 0 .. MaxConn /\ owner \in [Fd -> Conn \cup {None}]
  /\ left \subseteq Conn /\ frozen \subseteq Conn /\ shut \subseteq Conn
  /\ clients \subseteq Fd /\ evicted \subseteq Fd
  /\ drops \in [Fd -> 0 .. MaxDrops] 
  /\ apc \in {"accept", "list", "cancel", "greet", "evict", "alive", "close",
              "forget", "gone"}
  /\ afd \in Fd \cup {None}
  /\ cpc \in [Conn -> {"none", "read", "drop", "close", "decide", "gone"}]
  /\ cfd \in [Conn -> Fd \cup {None}]
  /\ last \in [Conn -> BOOLEAN] /\ wasEvicted \in [Conn -> BOOLEAN]
  /\ tpc \in {"sleep", "send", "evict", "gone"} /\ tfds \subseteq Fd /\ tfd \in Fd \cup {None}
  /\ gpc \in {"idle", "timing", "expired", "stop", "gone"}
  /\ gracePending \in BOOLEAN /\ sameEpoch \in BOOLEAN /\ visited \in BOOLEAN
  /\ late \subseteq Fd
  /\ mpc \in {"serve", "shutdown", "swap", "join", "again", "ended"}
  /\ stops \in 0 .. 2
  /\ joining \subseteq Conn /\ quit \in BOOLEAN
  /\ run \in BOOLEAN /\ abandoned \in BOOLEAN

Init ==
  /\ conns = 0 /\ owner = [f \in Fd |-> None]
  /\ left = {} /\ frozen = {} /\ shut = {}
  /\ clients = {} /\ evicted = {} /\ drops = [f \in Fd |-> 0]
  /\ apc = "accept" /\ afd = None
  /\ cpc = [k \in Conn |-> "none"] /\ cfd = [k \in Conn |-> None]
  /\ last = [k \in Conn |-> FALSE] /\ wasEvicted = [k \in Conn |-> FALSE]
  /\ tpc = "sleep" /\ tfds = {} /\ tfd = None
  /\ gpc = "idle" /\ gracePending = FALSE /\ sameEpoch = FALSE /\ visited = FALSE
  /\ late = {}
  /\ mpc = "serve" /\ stops = 0 /\ joining = {} /\ quit = FALSE
  /\ run = FALSE /\ abandoned = FALSE

-----------------------------------------------------------------------------
(* The peers: one goes away, stops reading or reads again.  What they do   *)
(* after they were shut down, or while the server ends, does not matter.   *)
Connected == IF quit THEN {} ELSE {owner[f] : f \in Fd} \ ({None} \cup shut \cup left)

Leave(k) ==
  /\ k \in Connected
  /\ left' = left \cup {k} /\ frozen' = frozen \ {k}
  /\ UNCHANGED <<conns, owner, shut, books, accept, client, sender, grace,
                 stopper, run, abandoned>>

Freeze(k) ==
  /\ k \in Connected \ frozen
  /\ frozen' = frozen \cup {k}
  /\ UNCHANGED <<conns, owner, left, shut, books, accept, client, sender, grace,
                 stopper, run, abandoned>>

Thaw(k) ==
  /\ k \in frozen \cap Connected
  /\ frozen' = frozen \ {k}
  /\ UNCHANGED <<conns, owner, left, shut, books, accept, client, sender, grace,
                 stopper, run, abandoned>>

-----------------------------------------------------------------------------
(* sendFrameTo(f), up to what it does when it fails: a peer that does not  *)
(* read lets the send time out at a frame boundary (the drop is counted)   *)
(* or in the middle of a frame.  Sends to a peer that is gone fail and are *)
(* left to its reader.                                                     *)
Deaf(f) == owner[f] \in frozen \ shut

SlowDrop(f) == Deaf(f) /\ drops' = [drops EXCEPT ![f] = IF @ < MaxDrops THEN @ + 1 ELSE @]
Torn(f)     == Deaf(f) /\ UNCHANGED drops
Sent(f)     == ~Deaf(f) /\ UNCHANGED drops

(* evictClient(f): only who finds f in clients_ shuts it down, in the same *)
(* critical section.                                                       *)
evictClient(f) ==
  IF f \in clients
  THEN /\ clients' = clients \ {f} /\ evicted' = evicted \cup {f}
       /\ shut' = shut \cup {owner[f]}
  ELSE UNCHANGED <<clients, evicted, shut>>

forgetClient(f) == drops' = [drops EXCEPT ![f] = 0] /\ evicted' = evicted \ {f}

(* close(f): the number is free, the connection is gone.                   *)
close(f) ==
  /\ owner' = [owner EXCEPT ![f] = None]
  /\ left' = left \ {owner[f]} /\ frozen' = frozen \ {owner[f]}
  /\ shut' = shut \ {owner[f]} /\ UNCHANGED conns

-----------------------------------------------------------------------------
(* threadMain.  accept() returns the lowest free descriptor ...            *)
Lowest(f) == owner[f] = None /\ \A e \in Fd : owner[e] = None => f <= e

Accept(f) ==
  /\ apc = "accept" /\ mpc = "serve" /\ conns < MaxConn /\ Lowest(f)
  /\ conns' = conns + 1 /\ owner' = [owner EXCEPT ![f] = conns + 1]
  /\ apc' = "list" /\ afd' = f
  /\ UNCHANGED <<left, frozen, shut, books, client, sender, grace, stopper, run,
                 abandoned>>

(* ... and the client is listed; one beyond kMaxClients is refused, closed *)
(* and forgotten.                                                          *)
List ==
  /\ apc = "list"
  /\ IF Cardinality(clients) >= kMaxClients
     THEN /\ apc' = "accept" /\ afd' = None
          /\ close(afd) /\ forgetClient(afd) /\ UNCHANGED <<clients, late>>
     ELSE /\ apc' = "cancel" /\ clients' = clients \cup {afd}
          /\ late' = IF gpc = "stop" THEN late \cup {afd} ELSE late
          /\ UNCHANGED <<peers, afd, evicted, drops>>
  /\ UNCHANGED <<client, sender, gpc, gracePending, sameEpoch, visited, stopper,
                 run, abandoned>>

AcceptEnds ==
  /\ apc = "accept" /\ quit /\ apc' = "gone"
  /\ UNCHANGED <<peers, books, afd, client, sender, grace, stopper, run, abandoned>>

(* Slip: the flag stays.                                                   *)
cancelNothing == UNCHANGED <<gracePending, sameEpoch>>

cancelReconnectGrace ==
  /\ gracePending' = FALSE
  /\ sameEpoch' = (sameEpoch /\ ~gracePending)

CancelGrace ==
  /\ apc = "cancel" /\ apc' = "greet"
  /\ cancelReconnectGrace /\ visited' = (visited \/ gpc = "timing")
  /\ UNCHANGED <<peers, books, afd, client, sender, gpc, late, stopper, run, abandoned>>

(* The first status for this client alone (both sends in one).             *)
Greet ==
  /\ apc = "greet"
  /\ \/ Sent(afd) /\ apc' = "alive"
     \/ SlowDrop(afd) /\ apc' = IF drops'[afd] = MaxDrops THEN "evict" ELSE "alive"
     \/ Torn(afd) /\ apc' = "evict"
  /\ UNCHANGED <<peers, clients, evicted, afd, client, sender, grace,
                 stopper, run, abandoned>>

EvictGreeted ==
  /\ apc = "evict" /\ apc' = "alive"
  /\ evictClient(afd)
  /\ UNCHANGED <<conns, owner, left, frozen, drops, afd, client, sender,
                 grace, stopper, run, abandoned>>

(* Still listed: it gets its thread, which looks at quit_ first.  (What    *)
(* happens between the test and the start is found by the thread.)         *)
Alive ==
  /\ apc = "alive"
  /\ IF afd \in clients
     THEN /\ apc' = "accept" /\ afd' = None
          /\ cpc' = [cpc EXCEPT ![owner[afd]] = IF quit THEN "drop" ELSE "read"]
          /\ cfd' = [cfd EXCEPT ![owner[afd]] = afd]
     ELSE apc' = "close" /\ UNCHANGED <<afd, cpc, cfd>>
  /\ UNCHANGED <<peers, books, last, wasEvicted, sender, grace, stopper,
                 run, abandoned>>

(* Evicted before it had a thread: the accept thread closes it.            *)
CloseGreeted ==
  /\ apc = "close" /\ apc' = "forget"
  /\ close(afd) /\ abandoned' = TRUE
  /\ UNCHANGED <<books, afd, client, sender, grace,
                 stopper, run>>

(* Slip: the mark stays.                                                   *)
ForgetDrops ==
  /\ apc = "forget" /\ apc' = "accept" /\ afd' = None
  /\ drops' = [drops EXCEPT ![afd] = 0]
  /\ UNCHANGED <<peers, clients, evicted, client, sender, grace, stopper, run,
                 abandoned>>

ForgetGreeted ==
  /\ apc = "forget" /\ apc' = "accept" /\ afd' = None
  /\ forgetClient(afd)
  /\ UNCHANGED <<peers, clients, client, sender, grace, stopper,
                 run, abandoned>>

threadMain ==
  \/ AcceptEnds \/ List \/ CancelGrace \/ Greet \/ EvictGreeted \/ Alive
  \/ CloseGreeted \/ ForgetGreeted

-----------------------------------------------------------------------------
(* serveClient: a command that starts or stops the run, then quit_ again.  *)
Handle(k) ==
  /\ cpc[k] = "read" /\ k \notin left
  /\ \E r \in BOOLEAN : r # run /\ run' = r
  /\ cpc' = [cpc EXCEPT ![k] = IF quit THEN "drop" ELSE "read"]
  /\ UNCHANGED <<peers, books, accept, cfd, last, wasEvicted, sender, grace,
                 stopper, abandoned>>

(* read() returns 0: the peer has gone, or the server has shut it down.    *)
ReadEnds(k) ==
  /\ cpc[k] = "read" /\ k \in left \cup shut
  /\ cpc' = [cpc EXCEPT ![k] = "drop"]
  /\ UNCHANGED <<peers, books, accept, cfd, last, wasEvicted, sender, grace,
                 stopper, run, abandoned>>

(* dropClient: off the lists (and forgetClient), then close; what to do    *)
(* about the run is decided with what was seen under the lock.             *)
Drop(k) ==
  /\ cpc[k] = "drop" /\ cpc' = [cpc EXCEPT ![k] = "close"]
  /\ clients' = clients \ {cfd[k]} /\ evicted' = evicted \ {cfd[k]}
  /\ drops' = [drops EXCEPT ![cfd[k]] = 0]
  /\ wasEvicted' = [wasEvicted EXCEPT ![k] = cfd[k] \in evicted]
  /\ last' = [last EXCEPT ![k] = clients' = {}]
  /\ UNCHANGED <<peers, accept, cfd, sender, grace, stopper, run, abandoned>>

Close(k) ==
  /\ cpc[k] = "close" /\ cpc' = [cpc EXCEPT ![k] = "decide"]
  /\ close(cfd[k]) /\ cfd' = [cfd EXCEPT ![k] = None]
  /\ UNCHANGED <<books, accept, last, wasEvicted, sender, grace, stopper,
                 run, abandoned>>

beginReconnectGrace == gracePending' = TRUE /\ sameEpoch' = FALSE

(* Slip: the eviction is no reason to do anything.                         *)
DecideNothing(k) ==
  /\ cpc[k] = "decide" /\ cpc' = [cpc EXCEPT ![k] = "gone"]
  /\ last' = [last EXCEPT ![k] = FALSE]
  /\ wasEvicted' = [wasEvicted EXCEPT ![k] = FALSE]
  /\ IF ~last[k] \/ quit \/ wasEvicted[k] THEN UNCHANGED run ELSE run' = FALSE
  /\ UNCHANGED <<peers, books, accept, cfd, sender, grace, stopper, abandoned>>

Decide(k) ==
  /\ cpc[k] = "decide" /\ cpc' = [cpc EXCEPT ![k] = "gone"]
  /\ last' = [last EXCEPT ![k] = FALSE]
  /\ wasEvicted' = [wasEvicted EXCEPT ![k] = FALSE]
  /\ IF ~last[k] \/ quit THEN UNCHANGED <<gracePending, sameEpoch, run>>
     ELSE IF wasEvicted[k] THEN beginReconnectGrace /\ UNCHANGED run
     ELSE run' = FALSE /\ UNCHANGED <<gracePending, sameEpoch>>
  /\ UNCHANGED <<peers, books, accept, cfd, sender, gpc, visited, late, stopper,
                 abandoned>>

serveClient(k) == ReadEnds(k) \/ Drop(k) \/ Close(k) \/ Decide(k)

-----------------------------------------------------------------------------
(* telemetryLoop: a broadcast goes to a snapshot of the clients.           *)
Broadcast ==
  /\ tpc = "sleep"
  /\ IF quit THEN tpc' = "gone" /\ UNCHANGED tfds
     ELSE clients # {} /\ tpc' = "send" /\ tfds' = clients
  /\ UNCHANGED <<peers, books, accept, client, tfd, grace, stopper, run, abandoned>>

Onward(fds) == IF fds = {} THEN "sleep" ELSE "send"

SendTo(f) ==
  /\ tpc = "send" /\ f \in tfds
  /\ tfds' = tfds \ {f}
  /\ \/ Sent(f) /\ tpc' = Onward(tfds') /\ UNCHANGED tfd
     \/ SlowDrop(f) /\ drops'[f] < MaxDrops /\ tpc' = Onward(tfds') /\ UNCHANGED tfd
     \/ SlowDrop(f) /\ drops'[f] = MaxDrops /\ tpc' = "evict" /\ tfd' = f
     \/ Torn(f) /\ tpc' = "evict" /\ tfd' = f
  /\ UNCHANGED <<peers, clients, evicted, accept, client, grace, stopper, run,
                 abandoned>>

(* Slip: closed here as well.                                              *)
EvictAndClose ==
  /\ tpc = "evict" /\ tpc' = Onward(tfds) /\ tfd' = None
  /\ clients' = clients \ {tfd} /\ evicted' = evicted \cup {tfd}
  /\ close(tfd)
  /\ UNCHANGED <<drops, accept, client, tfds, grace, stopper, run, abandoned>>

EvictDeaf ==
  /\ tpc = "evict" /\ tpc' = Onward(tfds) /\ tfd' = None
  /\ evictClient(tfd)
  /\ UNCHANGED <<conns, owner, left, frozen, drops, accept, client, tfds, grace,
                 stopper, run, abandoned>>

telemetryLoop == Broadcast \/ EvictDeaf \/ \E f \in Fd : SendTo(f)

-----------------------------------------------------------------------------
(* graceLoop: times one period; a cancel or another begin ends it.         *)
GraceStarts ==
  /\ gpc = "idle" /\ ~quit /\ gracePending
  /\ gpc' = "timing" /\ sameEpoch' = TRUE /\ visited' = FALSE
  /\ UNCHANGED <<peers, books, accept, client, sender, gracePending, late, stopper,
                 run, abandoned>>

GraceReplaced ==
  /\ gpc = "timing" /\ ~quit /\ ~(gracePending /\ sameEpoch)
  /\ gpc' = "idle"
  /\ UNCHANGED <<peers, books, accept, client, sender, gracePending, sameEpoch,
                 visited, late, stopper, run, abandoned>>

(* The 30 s are over ...                                                   *)
GraceExpires ==
  /\ gpc = "timing" /\ ~quit /\ gracePending /\ sameEpoch
  /\ gpc' = "expired" /\ gracePending' = FALSE
  /\ UNCHANGED <<peers, books, accept, client, sender, sameEpoch, visited,
                 late, stopper, run, abandoned>>

(* ... and nobody is there: the run is stopped.                            *)
HasClient ==
  /\ gpc = "expired" /\ gpc' = IF clients = {} /\ ~quit THEN "stop" ELSE "idle"
  /\ UNCHANGED <<peers, books, accept, client, sender, gracePending, sameEpoch,
                 visited, late, stopper, run, abandoned>>

GraceStops ==
  /\ gpc = "stop" /\ gpc' = "idle" /\ run' = FALSE /\ late' = {}
  /\ UNCHANGED <<peers, books, accept, client, sender, gracePending, sameEpoch,
                 visited, stopper, abandoned>>

GraceEnds ==
  /\ gpc \in {"idle", "timing"} /\ quit /\ gpc' = "gone"
  /\ UNCHANGED <<peers, books, accept, client, sender, gracePending, sameEpoch,
                 visited, late, stopper, run, abandoned>>

graceLoop ==
  \/ GraceStarts \/ GraceReplaced \/ GraceExpires \/ HasClient \/ GraceStops
  \/ GraceEnds

-----------------------------------------------------------------------------
(* stop(), called by main and once more by the destructor: quit_ and the   *)
(* end of the grace period ...                                             *)
Quit ==
  /\ mpc \in {"serve", "again"} /\ mpc' = "shutdown"
  /\ stops' = stops + 1
  /\ quit' = TRUE /\ gracePending' = FALSE /\ sameEpoch' = FALSE
  /\ UNCHANGED <<peers, books, accept, client, sender, gpc, visited, late,
                 joining, run, abandoned>>

(* Slip: the readers are not woken.                                        *)
ShutNobody ==
  /\ mpc = "shutdown" /\ mpc' = "swap"
  /\ UNCHANGED <<peers, books, accept, client, sender, grace, stops, joining,
                 quit, run, abandoned>>

(* ... the clients that are listed are shut down ...                       *)
ShutDown ==
  /\ mpc = "shutdown" /\ mpc' = "swap"
  /\ shut' = shut \cup {owner[f] : f \in clients}
  /\ UNCHANGED <<conns, owner, left, frozen, books, accept, client, sender,
                 grace, stops, joining, quit, run, abandoned>>

(* ... and the threads there are now are joined.                           *)
Swap ==
  /\ mpc = "swap" /\ mpc' = "join"
  /\ joining' = {k \in Conn : cpc[k] # "none"}
  /\ UNCHANGED <<peers, books, accept, client, sender, grace, stops, quit, run,
                 abandoned>>

(* Slip: the destructor does nothing.                                      *)
JoinedOnce ==
  /\ mpc = "join" /\ \A k \in joining : cpc[k] = "gone"
  /\ apc = "gone" /\ tpc = "gone" /\ gpc = "gone"
  /\ joining' = {} /\ mpc' = "ended"
  /\ UNCHANGED <<peers, books, accept, client, sender, grace, stops, quit, run,
                 abandoned>>

Joined ==
  /\ mpc = "join" /\ \A k \in joining : cpc[k] = "gone"
  /\ apc = "gone" /\ tpc = "gone" /\ gpc = "gone"
  /\ joining' = {} /\ mpc' = IF stops = 1 THEN "again" ELSE "ended"
  /\ UNCHANGED <<peers, books, accept, client, sender, grace, stops, quit, run,
                 abandoned>>

stop == ShutDown \/ Swap \/ Joined \/ (mpc = "again" /\ Quit)

-----------------------------------------------------------------------------
Peers  == \E k \in Conn : Leave(k) \/ Freeze(k) \/ Thaw(k)

Next ==
  \/ Peers
  \/ threadMain \/ \E f \in Fd : Accept(f)
  \/ \E k \in Conn : Handle(k) \/ serveClient(k)
  \/ telemetryLoop \/ graceLoop
  \/ Quit \/ stop

(* The threads are scheduled, a send times out, 30 s pass; a stop() that   *)
(* has begun goes on.  Nobody owes a connection, a command or the end.     *)
Fairness ==
  /\ WF_vars(threadMain) /\ WF_vars(telemetryLoop) /\ WF_vars(graceLoop)
  /\ \A k \in Conn : WF_vars(serveClient(k))
  /\ WF_vars(stop)

Spec == Init /\ [][Next]_vars /\ Fairness

-----------------------------------------------------------------------------
(* A descriptor that is listed is open, and its connection was not given   *)
(* up: no broadcast is addressed to a number that somebody else may own.   *)
ListedIsOpen ==
  \A f \in clients : owner[f] # None /\ (owner[f] \in shut => quit)

(* The mark "evicted" belongs to the connection that was evicted: a new    *)
(* one never inherits it with the number, so a client that leaves by       *)
(* itself ends the run at once and not after a grace period.               *)
MarkIsOwners == \A f \in evicted : owner[f] # None => owner[f] \in shut

(* A connection is closed by the thread that serves it, once: no close     *)
(* ever hits a later connection with the same number.                      *)
CloseOwn ==
  [][ \A f \in Fd : owner'[f] # owner[f] /\ owner[f] # None
        => \/ apc = "close" /\ f = afd
           \/ apc = "list" /\ f = afd
           \/ \E k \in Conn : cpc[k] = "close" /\ owner[f] = k ]_vars

(* The stop at the end of a grace period (graceLoop's stopRun) hits nobody *)
(* it should have seen: no client came while the period was timed (however *)
(* soon it left again), and whoever is connected when the run is stopped   *)
(* was listed after hasClient() had answered.  For that client, between    *)
(* the answer and the stop, the code has no guard.                         *)
GraceUndisturbed ==
  [][ gpc = "stop" /\ gpc' = "idle" => ~visited /\ clients \subseteq late ]_vars

(* "it never hangs for ever": a run that nobody watches ends, or somebody  *)
(* connects, or the server ends.                                           *)
RunEnds == run /\ clients = {} ~> ~run \/ clients # {} \/ quit

(* The same, as long as no connection was torn before it had a thread.     *)
OrphanRunEnds == run /\ clients = {} ~> ~run \/ clients # {} \/ quit \/ abandoned

(* When the server is gone no thread and no descriptor is left, not even   *)
(* of a client that came in the last moment, after stop() had taken the    *)
(* threads: the second stop(), in the destructor, is for that one.         *)
NobodyLeft ==
  mpc = "ended" => /\ \A k \in Conn : cpc[k] \in {"none", "gone"}
                   /\ \A f \in Fd : owner[f] = None

(* stop() ends, both times: every thread it joins is woken.                *)
StopEnds == quit ~> mpc = "ended"
===============================================================================
