---------------------------- MODULE SessionProofs ----------------------------
(***************************************************************************)
(* Proofs about the connections, for any number of clients, connections    *)
(* and drops.  OwnInv says who serves which descriptor: every open one is  *)
(* served by exactly one thread, the accept thread or its own; BookInv,    *)
(* what the lists of the server say of it; EndInv, what stop() leaves.     *)
(***************************************************************************)
EXTENDS Session, TLAPS

Served  == {"read", "drop", "close"}       \* a client thread with a descriptor
Holding == {"list", "cancel", "greet", "evict", "alive", "close"}
                                           \* the accept thread with one

(* The connections, and the places of the threads.                         *)
PlaceTypes ==
  /\ conns \in 0 .. MaxConn /\ owner \in [Fd -> Conn \cup {None}]
  /\ afd \in Fd \cup {None} /\ cfd \in [Conn -> Fd \cup {None}]
  /\ cpc \in [Conn -> {"none", "read", "drop", "close", "decide", "gone"}]

Serves ==
  /\ \A k \in Conn : cpc[k] \in Served => cfd[k] \in Fd /\ owner[cfd[k]] = k
  /\ \A k \in Conn : cpc[k] # "none" => k <= conns
  /\ apc \in Holding => afd \in Fd /\ owner[afd] # None /\ cpc[owner[afd]] = "none"
  /\ apc = "forget" => afd \in Fd /\ owner[afd] = None

Owned ==
  /\ \A f \in Fd : owner[f] <= conns
  /\ \A f, g \in Fd : owner[f] = owner[g] /\ owner[f] # None => f = g
  /\ \A f \in Fd : owner[f] # None =>
       (apc \in Holding /\ f = afd) \/ cpc[owner[f]] \in Served

OwnInv == PlaceTypes /\ Serves /\ Owned

(* OwnInv is inductive.                                                    *)
LEMMA OwnInvHolds == OwnInv /\ [Next]_vars => OwnInv'
<1> SUFFICES ASSUME OwnInv, [Next]_vars PROVE OwnInv'
  OBVIOUS
<1>0. OwnInv
  OBVIOUS
<1>1. ASSUME NEW k \in Conn, Leave(k) PROVE OwnInv'
  BY <1>0, <1>1, SessionAssumption
     DEF Leave, OwnInv, PlaceTypes, Serves, Owned, Served, Holding, Fd,
         Conn, None, peers, books, accept, client
<1>2. ASSUME NEW k \in Conn, Freeze(k) PROVE OwnInv'
  BY <1>0, <1>2, SessionAssumption
     DEF Freeze, OwnInv, PlaceTypes, Serves, Owned, Served, Holding, Fd,
         Conn, None, peers, books, accept, client
<1>3. ASSUME NEW k \in Conn, Thaw(k) PROVE OwnInv'
  BY <1>0, <1>3, SessionAssumption
     DEF Thaw, OwnInv, PlaceTypes, Serves, Owned, Served, Holding, Fd,
         Conn, None, peers, books, accept, client
<1>4. ASSUME NEW k \in Conn, Handle(k) PROVE OwnInv'
  BY <1>0, <1>4, SessionAssumption
     DEF Handle, OwnInv, PlaceTypes, Serves, Owned, Served, Holding, Fd,
         Conn, None, peers, books, accept, client
<1>5. ASSUME NEW k \in Conn, ReadEnds(k) PROVE OwnInv'
  BY <1>0, <1>5, SessionAssumption
     DEF ReadEnds, OwnInv, PlaceTypes, Serves, Owned, Served, Holding, Fd,
         Conn, None, peers, books, accept, client
<1>6. ASSUME NEW k \in Conn, Drop(k) PROVE OwnInv'
  BY <1>0, <1>6, SessionAssumption
     DEF Drop, OwnInv, PlaceTypes, Serves, Owned, Served, Holding, Fd,
         Conn, None, peers, books, accept, client
<1>7. ASSUME NEW k \in Conn, Close(k) PROVE OwnInv'
  BY <1>0, <1>7, SessionAssumption
     DEF Close, close, OwnInv, PlaceTypes, Serves, Owned, Served, Holding,
         Fd, Conn, None, peers, books, accept, client
<1>8. ASSUME NEW k \in Conn, Decide(k) PROVE OwnInv'
  BY <1>0, <1>8, SessionAssumption
     DEF Decide, beginReconnectGrace, OwnInv, PlaceTypes, Serves, Owned,
         Served, Holding, Fd, Conn, None, peers, books, accept, client
<1>9. ASSUME NEW f \in Fd, Accept(f) PROVE OwnInv'
  BY <1>0, <1>9, SessionAssumption
     DEF Accept, Lowest, OwnInv, PlaceTypes, Serves, Owned, Served,
         Holding, Fd, Conn, None, peers, books, accept, client
<1>10. ASSUME NEW f \in Fd, SendTo(f) PROVE OwnInv'
  BY <1>0, <1>10, SessionAssumption
     DEF SendTo, Sent, SlowDrop, Torn, OwnInv, PlaceTypes, Serves, Owned,
         Served, Holding, Fd, Conn, None, peers, books, accept, client
<1>11. ASSUME List PROVE OwnInv'
  <2>1. /\ apc = "list" /\ afd \in Fd /\ UNCHANGED <<conns, cpc, cfd>>
        /\ \/ /\ apc' = "accept" /\ afd' = None
              /\ owner' = [owner EXCEPT ![afd] = None]
           \/ apc' = "cancel" /\ UNCHANGED <<owner, afd>>
    BY <1>0, <1>11
       DEF List, close, OwnInv, Serves, Holding, peers, client
  <2>2. CASE UNCHANGED owner /\ apc' = "cancel" /\ UNCHANGED afd
    BY <1>0, <2>1, <2>2 DEF OwnInv, PlaceTypes, Serves, Owned, Served, Holding
  <2>3. CASE /\ apc' = "accept" /\ afd' = None
             /\ owner' = [owner EXCEPT ![afd] = None]
    BY <1>0, <2>1, <2>3, SessionAssumption
       DEF OwnInv, PlaceTypes, Serves, Owned, Served, Holding, Fd, Conn, None
  <2> QED BY <2>1, <2>2, <2>3
<1>12. ASSUME AcceptEnds PROVE OwnInv'
  BY <1>0, <1>12, SessionAssumption
     DEF AcceptEnds, OwnInv, PlaceTypes, Serves, Owned, Served, Holding,
         Fd, Conn, None, peers, books, accept, client
<1>13. ASSUME CancelGrace PROVE OwnInv'
  BY <1>0, <1>13, SessionAssumption
     DEF CancelGrace, cancelReconnectGrace, OwnInv, PlaceTypes, Serves,
         Owned, Served, Holding, Fd, Conn, None, peers, books, accept,
         client
<1>14. ASSUME Greet PROVE OwnInv'
  BY <1>0, <1>14, SessionAssumption
     DEF Greet, Sent, SlowDrop, Torn, OwnInv, PlaceTypes, Serves, Owned,
         Served, Holding, Fd, Conn, None, peers, books, accept, client
<1>15. ASSUME EvictGreeted PROVE OwnInv'
  BY <1>0, <1>15, SessionAssumption
     DEF EvictGreeted, evictClient, OwnInv, PlaceTypes, Serves, Owned,
         Served, Holding, Fd, Conn, None, peers, books, accept, client
<1>16. ASSUME Alive PROVE OwnInv'
  <2>1. /\ apc = "alive" /\ afd \in Fd /\ UNCHANGED <<conns, owner>>
        /\ owner[afd] \in Conn /\ cpc[owner[afd]] = "none"
    BY <1>0, <1>16 DEF Alive, OwnInv, PlaceTypes, Serves, Holding, peers
  <2>2. CASE afd \in clients
    <3>1. PICK pc \in {"read", "drop"} :
                 cpc' = [cpc EXCEPT ![owner[afd]] = pc]
      BY <1>16, <2>2 DEF Alive
    <3>2. /\ cfd' = [cfd EXCEPT ![owner[afd]] = afd]
          /\ apc' = "accept" /\ afd' = None
      BY <1>16, <2>2 DEF Alive
    <3>3. PlaceTypes'
      BY <1>0, <2>1, <3>1, <3>2 DEF OwnInv, PlaceTypes
    <3>4. owner[afd] <= conns
      BY <1>0, <2>1 DEF OwnInv, Owned
    <3>5. Serves'
      BY <1>0, <2>1, <3>1, <3>2, <3>4
         DEF OwnInv, PlaceTypes, Serves, Served, Holding
    <3>6. Owned'
      BY <1>0, <2>1, <3>1, <3>2 DEF OwnInv, PlaceTypes, Owned, Served, Holding
    <3> QED BY <3>3, <3>5, <3>6 DEF OwnInv
  <2>3. CASE afd \notin clients
    <3>1. apc' = "close" /\ UNCHANGED <<afd, cpc, cfd>>
      BY <1>16, <2>3 DEF Alive
    <3> QED BY <1>0, <2>1, <3>1
            DEF OwnInv, PlaceTypes, Serves, Owned, Served, Holding
  <2> QED BY <2>2, <2>3
<1>17. ASSUME CloseGreeted PROVE OwnInv'
  BY <1>0, <1>17, SessionAssumption
     DEF CloseGreeted, close, OwnInv, PlaceTypes, Serves, Owned, Served,
         Holding, Fd, Conn, None, peers, books, accept, client
<1>18. ASSUME ForgetGreeted PROVE OwnInv'
  BY <1>0, <1>18, SessionAssumption
     DEF ForgetGreeted, forgetClient, OwnInv, PlaceTypes, Serves, Owned,
         Served, Holding, Fd, Conn, None, peers, books, accept, client
<1>19. ASSUME Broadcast PROVE OwnInv'
  BY <1>0, <1>19, SessionAssumption
     DEF Broadcast, OwnInv, PlaceTypes, Serves, Owned, Served, Holding, Fd,
         Conn, None, peers, books, accept, client
<1>20. ASSUME EvictDeaf PROVE OwnInv'
  BY <1>0, <1>20, SessionAssumption
     DEF EvictDeaf, evictClient, OwnInv, PlaceTypes, Serves, Owned, Served,
         Holding, Fd, Conn, None, peers, books, accept, client
<1>21. ASSUME GraceStarts PROVE OwnInv'
  BY <1>0, <1>21, SessionAssumption
     DEF GraceStarts, OwnInv, PlaceTypes, Serves, Owned, Served, Holding,
         Fd, Conn, None, peers, books, accept, client
<1>22. ASSUME GraceReplaced PROVE OwnInv'
  BY <1>0, <1>22, SessionAssumption
     DEF GraceReplaced, OwnInv, PlaceTypes, Serves, Owned, Served, Holding,
         Fd, Conn, None, peers, books, accept, client
<1>23. ASSUME GraceExpires PROVE OwnInv'
  BY <1>0, <1>23, SessionAssumption
     DEF GraceExpires, OwnInv, PlaceTypes, Serves, Owned, Served, Holding,
         Fd, Conn, None, peers, books, accept, client
<1>24. ASSUME HasClient PROVE OwnInv'
  BY <1>0, <1>24, SessionAssumption
     DEF HasClient, OwnInv, PlaceTypes, Serves, Owned, Served, Holding, Fd,
         Conn, None, peers, books, accept, client
<1>25. ASSUME GraceStops PROVE OwnInv'
  BY <1>0, <1>25, SessionAssumption
     DEF GraceStops, OwnInv, PlaceTypes, Serves, Owned, Served, Holding,
         Fd, Conn, None, peers, books, accept, client
<1>26. ASSUME GraceEnds PROVE OwnInv'
  BY <1>0, <1>26, SessionAssumption
     DEF GraceEnds, OwnInv, PlaceTypes, Serves, Owned, Served, Holding, Fd,
         Conn, None, peers, books, accept, client
<1>27. ASSUME Quit PROVE OwnInv'
  BY <1>0, <1>27, SessionAssumption
     DEF Quit, OwnInv, PlaceTypes, Serves, Owned, Served, Holding, Fd,
         Conn, None, peers, books, accept, client
<1>28. ASSUME ShutDown PROVE OwnInv'
  BY <1>0, <1>28, SessionAssumption
     DEF ShutDown, OwnInv, PlaceTypes, Serves, Owned, Served, Holding, Fd,
         Conn, None, peers, books, accept, client
<1>29. ASSUME Swap PROVE OwnInv'
  BY <1>0, <1>29, SessionAssumption
     DEF Swap, OwnInv, PlaceTypes, Serves, Owned, Served, Holding, Fd,
         Conn, None, peers, books, accept, client
<1>30. ASSUME Joined PROVE OwnInv'
  BY <1>0, <1>30, SessionAssumption
     DEF Joined, OwnInv, PlaceTypes, Serves, Owned, Served, Holding, Fd,
         Conn, None, peers, books, accept, client
<1>31. CASE UNCHANGED vars
  BY <1>0, <1>31
     DEF vars, OwnInv, PlaceTypes, Serves, Owned, Served, Holding, Fd,
         Conn, None, peers, books, accept, client
<1> QED
  BY <1>1, <1>2, <1>3, <1>4, <1>5, <1>6, <1>7, <1>8, <1>9, <1>10, <1>11,
     <1>12, <1>13, <1>14, <1>15, <1>16, <1>17, <1>18, <1>19, <1>20, <1>21,
     <1>22, <1>23, <1>24, <1>25, <1>26, <1>27, <1>28, <1>29, <1>30, <1>31
     DEF Next, Peers, threadMain, serveClient, telemetryLoop, graceLoop, stop

(* OwnInv holds in every state of the server.                              *)
LEMMA OwnAlways == Spec => []OwnInv
<1>1. Init => OwnInv
  BY SessionAssumption DEF Init, OwnInv, PlaceTypes, Serves, Owned, Served,
     Holding, Fd, Conn, None
<1> QED BY <1>1, OwnInvHolds, PTL DEF Spec

(* For any number of connections: a connection is closed once, by the      *)
(* thread that serves it, and no close hits a later one.                   *)
THEOREM ClosesItsOwn == Spec => CloseOwn
<1>1. ASSUME OwnInv, [Next]_vars, NEW f \in Fd, owner'[f] # owner[f],
             owner[f] # None
      PROVE  \/ apc = "close" /\ f = afd
             \/ apc = "list" /\ f = afd
             \/ \E k \in Conn : cpc[k] = "close" /\ owner[f] = k
  <2>0. owner' # owner
    BY <1>1
  <2>1. \/ List \/ CloseGreeted \/ \E k \in Conn : Close(k)
        \/ \E e \in Fd : Accept(e)
    BY <1>1, <2>0 DEF Next, Peers, Leave, Freeze, Thaw, threadMain, AcceptEnds,
       CancelGrace, Greet, EvictGreeted, Alive, ForgetGreeted, Handle,
       serveClient, ReadEnds, Drop, Decide, telemetryLoop, Broadcast, SendTo,
       EvictDeaf, graceLoop, GraceStarts, GraceReplaced, GraceExpires,
       HasClient, GraceStops, GraceEnds, Quit, stop, ShutDown, Swap, Joined,
       vars, peers
  <2>2. CASE List \/ CloseGreeted
    BY <1>1, <2>2 DEF List, CloseGreeted, close, OwnInv, PlaceTypes, peers
  <2>3. CASE \E k \in Conn : Close(k)
    BY <1>1, <2>3 DEF Close, close, OwnInv, PlaceTypes, Serves, Served
  <2>4. CASE \E e \in Fd : Accept(e)
    BY <1>1, <2>4 DEF Accept, Lowest, OwnInv, PlaceTypes
  <2> QED BY <2>1, <2>2, <2>3, <2>4
<1>2. OwnInv /\ [Next]_vars =>
        \A f \in Fd : owner'[f] # owner[f] /\ owner[f] # None
          => \/ apc = "close" /\ f = afd
             \/ apc = "list" /\ f = afd
             \/ \E k \in Conn : cpc[k] = "close" /\ owner[f] = k
  BY <1>1
<1> QED BY <1>2, OwnAlways, PTL DEF Spec, CloseOwn

-----------------------------------------------------------------------------
(* What the lists say.                                                     *)

Listed ==
  /\ clients \subseteq Fd /\ evicted \subseteq Fd
  /\ \A f \in clients : owner[f] # None /\ (owner[f] \in shut => quit)
  /\ \A k \in Conn : cpc[k] = "close" => cfd[k] \notin clients \cup evicted
  /\ apc = "list" => afd \notin clients \cup evicted /\ owner[afd] \notin shut
  /\ apc = "close" => afd \notin clients
  /\ shut \subseteq Conn /\ \A k \in shut : k <= conns

Marked ==
  \A f \in evicted :
    /\ owner[f] # None => owner[f] \in shut
    /\ owner[f] = None => apc = "forget" /\ f = afd

BookInv == Listed /\ Marked /\ (mpc # "serve" => quit)

(* To evict a client takes it off the list and marks its connection.       *)
LEMMA EvictKeeps ==
  ASSUME OwnInv, BookInv, NEW f, evictClient(f),
         UNCHANGED <<conns, owner, cpc, cfd, afd, quit, mpc>>,
         apc' = apc \/ (apc = "evict" /\ apc' = "alive")
  PROVE  BookInv'
<1>1. CASE f \notin clients
  BY <1>1 DEF evictClient, BookInv, Listed, Marked
<1>2. CASE f \in clients
  <2>1. /\ f \in Fd /\ owner[f] # None /\ owner[f] \in Conn
        /\ clients' = clients \ {f} /\ evicted' = evicted \cup {f}
        /\ shut' = shut \cup {owner[f]}
    BY <1>2 DEF evictClient, BookInv, Listed, OwnInv, PlaceTypes
  <2>2. \A g \in Fd \ {f} : owner[g] # owner[f]
    BY <2>1 DEF OwnInv, Owned
  <2>3. \A k \in Conn : cpc[k] = "close" => cfd[k] # f
    BY <1>2 DEF BookInv, Listed
  <2>4. (\A k \in shut : k <= conns)'
    BY <2>1 DEF BookInv, Listed, OwnInv, Owned
  <2>5. (apc = "list" => afd \notin clients \cup evicted /\ owner[afd] \notin shut)'
    BY <1>2, <2>1, <2>2 DEF BookInv, Listed, OwnInv, Serves, Holding
  <2>6. (\A g \in clients : owner[g] # None /\ (owner[g] \in shut => quit))'
    BY <2>1, <2>2 DEF BookInv, Listed
  <2>7. (apc = "close" => afd \notin clients)'
    BY <2>1 DEF BookInv, Listed
  <2>8. Listed'
    BY <2>1, <2>3, <2>4, <2>5, <2>6, <2>7 DEF BookInv, Listed
  <2>9. Marked'
    <3> SUFFICES ASSUME NEW g \in evicted'
                 PROVE  /\ owner[g] # None => owner[g] \in shut'
                        /\ owner[g] = None => apc' = "forget" /\ g = afd
      BY DEF Marked
    <3> QED BY <2>1 DEF BookInv, Marked
  <2> QED BY <2>8, <2>9 DEF BookInv
<1> QED BY <1>1, <1>2

(* BookInv is inductive, relative to OwnInv.                               *)
LEMMA BookInvHolds == OwnInv /\ BookInv /\ [Next]_vars => BookInv'
<1> SUFFICES ASSUME OwnInv, BookInv, [Next]_vars PROVE BookInv'
  OBVIOUS
<1>0. OwnInv /\ BookInv
  OBVIOUS
<1>1. ASSUME NEW k \in Conn, Leave(k) PROVE BookInv'
  BY <1>0, <1>1, SessionAssumption
     DEF Leave, BookInv, Listed, Marked, OwnInv, PlaceTypes, Serves, Owned,
         Served, Holding, Fd, Conn, None, peers, books, accept, client,
         stopper
<1>2. ASSUME NEW k \in Conn, Freeze(k) PROVE BookInv'
  BY <1>0, <1>2, SessionAssumption
     DEF Freeze, BookInv, Listed, Marked, OwnInv, PlaceTypes, Serves,
         Owned, Served, Holding, Fd, Conn, None, peers, books, accept,
         client, stopper
<1>3. ASSUME NEW k \in Conn, Thaw(k) PROVE BookInv'
  BY <1>0, <1>3, SessionAssumption
     DEF Thaw, BookInv, Listed, Marked, OwnInv, PlaceTypes, Serves, Owned,
         Served, Holding, Fd, Conn, None, peers, books, accept, client,
         stopper
<1>4. ASSUME NEW k \in Conn, Handle(k) PROVE BookInv'
  BY <1>0, <1>4, SessionAssumption
     DEF Handle, BookInv, Listed, Marked, OwnInv, PlaceTypes, Serves,
         Owned, Served, Holding, Fd, Conn, None, peers, books, accept,
         client, stopper
<1>5. ASSUME NEW k \in Conn, ReadEnds(k) PROVE BookInv'
  BY <1>0, <1>5, SessionAssumption
     DEF ReadEnds, BookInv, Listed, Marked, OwnInv, PlaceTypes, Serves,
         Owned, Served, Holding, Fd, Conn, None, peers, books, accept,
         client, stopper
<1>6. ASSUME NEW k \in Conn, Drop(k) PROVE BookInv'
  <2>1. /\ UNCHANGED <<conns, owner, shut, apc, afd, cfd, quit, mpc>>
        /\ clients' = clients \ {cfd[k]} /\ evicted' = evicted \ {cfd[k]}
        /\ cpc' = [cpc EXCEPT ![k] = "close"]
    BY <1>6 DEF Drop, peers, accept, stopper
  <2>2. \A i \in Conn : cpc'[i] = "close" => i = k \/ cpc[i] = "close"
    BY <1>0, <2>1 DEF OwnInv, PlaceTypes
  <2>3. Listed'
    BY <1>0, <2>1, <2>2 DEF BookInv, Listed
  <2>4. Marked'
    BY <1>0, <2>1 DEF BookInv, Marked
  <2> QED BY <1>0, <2>1, <2>3, <2>4 DEF BookInv
<1>7. ASSUME NEW k \in Conn, Close(k) PROVE BookInv'
  <2>1. /\ cpc[k] = "close" /\ cfd[k] \in Fd /\ owner[cfd[k]] = k
        /\ UNCHANGED <<conns, clients, evicted, apc, afd, quit, mpc>>
        /\ owner' = [owner EXCEPT ![cfd[k]] = None] /\ shut' = shut \ {k}
        /\ cpc' = [cpc EXCEPT ![k] = "decide"]
        /\ cfd' = [cfd EXCEPT ![k] = None]
    BY <1>0, <1>7
       DEF Close, close, OwnInv, Serves, Served, books, accept, stopper
  <2>2. \A g \in Fd \ {cfd[k]} : owner'[g] = owner[g] /\ owner[g] # k
    BY <1>0, <2>1 DEF OwnInv, PlaceTypes, Owned, Conn, None
  <2>3. /\ \A i \in Conn \ {k} : cpc'[i] = cpc[i] /\ cfd'[i] = cfd[i]
        /\ cpc'[k] = "decide" /\ cfd[k] \notin clients \cup evicted
    BY <1>0, <2>1 DEF OwnInv, PlaceTypes, BookInv, Listed
  <2>4. apc = "list" => afd \in Fd /\ owner[afd] # k /\ afd # cfd[k]
    BY <1>0, <2>1 DEF OwnInv, Serves, Holding
  <2>5. Listed'
    BY <1>0, <2>1, <2>2, <2>3, <2>4 DEF BookInv, Listed
  <2>6. Marked'
    BY <1>0, <2>1, <2>2, <2>3 DEF BookInv, Listed, Marked
  <2> QED BY <1>0, <2>1, <2>5, <2>6 DEF BookInv
<1>8. ASSUME NEW k \in Conn, Decide(k) PROVE BookInv'
  BY <1>0, <1>8, SessionAssumption
     DEF Decide, beginReconnectGrace, BookInv, Listed, Marked, OwnInv,
         PlaceTypes, Serves, Owned, Served, Holding, Fd, Conn, None, peers,
         books, accept, client, stopper
<1>9. ASSUME NEW f \in Fd, Accept(f) PROVE BookInv'
  <2>1. /\ UNCHANGED <<shut, clients, evicted, cpc, cfd, quit, mpc>>
        /\ owner[f] = None /\ owner' = [owner EXCEPT ![f] = conns + 1]
        /\ conns \in Nat /\ conns' = conns + 1
        /\ apc = "accept" /\ apc' = "list" /\ afd' = f
    BY <1>0, <1>9, SessionAssumption
       DEF Accept, Lowest, books, client, stopper, OwnInv, PlaceTypes
  <2>2. f \notin clients \cup evicted
    BY <1>0, <2>1 DEF BookInv, Listed, Marked
  <2>3. /\ owner'[f] = conns + 1 /\ conns + 1 \notin shut
        /\ \A g \in Fd \ {f} : owner'[g] = owner[g]
    BY <1>0, <2>1 DEF BookInv, Listed, OwnInv, PlaceTypes
  <2>4. (\A k \in shut : k <= conns)'
    <3> SUFFICES ASSUME NEW k \in shut PROVE k <= conns + 1
      BY <2>1
    <3>1. k \in Nat /\ k <= conns
      BY <1>0, SessionAssumption DEF BookInv, Listed, Conn
    <3> QED BY <2>1, <3>1
  <2>5. Listed'
    BY <1>0, <2>1, <2>2, <2>3, <2>4 DEF BookInv, Listed
  <2>6. Marked'
    BY <1>0, <2>1, <2>2, <2>3 DEF BookInv, Listed, Marked
  <2> QED BY <1>0, <2>1, <2>5, <2>6 DEF BookInv
<1>10. ASSUME NEW f \in Fd, SendTo(f) PROVE BookInv'
  BY <1>0, <1>10, SessionAssumption
     DEF SendTo, Sent, SlowDrop, Torn, BookInv, Listed, Marked, OwnInv,
         PlaceTypes, Serves, Owned, Served, Holding, Fd, Conn, None, peers,
         books, accept, client, stopper
<1>11. ASSUME List PROVE BookInv'
  <2>1. /\ apc = "list" /\ afd \in Fd /\ UNCHANGED <<conns, cpc, cfd, quit, mpc>>
        /\ afd \notin clients \cup evicted /\ owner[afd] # None
        /\ owner[afd] \notin shut
    BY <1>0, <1>11
       DEF List, close, peers, client, stopper, OwnInv, Serves, Holding, BookInv,
           Listed
  <2>2. CASE apc' = "cancel"
    <3>1. /\ clients' = clients \cup {afd}
          /\ UNCHANGED <<owner, shut, afd, evicted>>
      BY <1>11, <2>2 DEF List, peers
    <3>2. \A k \in Conn : cpc[k] = "close" => cfd[k] # afd
      BY <1>0, <2>1 DEF OwnInv, Serves, Served, Holding
    <3>3. Listed'
      BY <1>0, <2>1, <2>2, <3>1, <3>2 DEF BookInv, Listed
    <3>4. Marked'
      BY <1>0, <2>1, <3>1 DEF BookInv, Marked
    <3> QED BY <1>0, <2>1, <3>3, <3>4 DEF BookInv
  <2>3. CASE apc' # "cancel"
    <3>1. /\ owner' = [owner EXCEPT ![afd] = None] /\ shut' = shut \ {owner[afd]}
          /\ evicted' = evicted \ {afd} /\ UNCHANGED clients
          /\ apc' = "accept"
      BY <1>11, <2>3 DEF List, close, forgetClient
    <3>2. \A g \in Fd \ {afd} : owner'[g] = owner[g] /\ (owner[g] # None =>
                                                       owner[g] # owner[afd])
      BY <1>0, <2>1, <3>1 DEF OwnInv, PlaceTypes, Owned
    <3>3. Listed'
      BY <1>0, <2>1, <3>1, <3>2 DEF BookInv, Listed
    <3>4. Marked'
      BY <1>0, <2>1, <3>1, <3>2 DEF BookInv, Listed, Marked
    <3> QED BY <1>0, <2>1, <3>3, <3>4 DEF BookInv
  <2> QED BY <2>2, <2>3
<1>12. ASSUME AcceptEnds PROVE BookInv'
  BY <1>0, <1>12, SessionAssumption
     DEF AcceptEnds, BookInv, Listed, Marked, OwnInv, PlaceTypes, Serves,
         Owned, Served, Holding, Fd, Conn, None, peers, books, accept,
         client, stopper
<1>13. ASSUME CancelGrace PROVE BookInv'
  BY <1>0, <1>13, SessionAssumption
     DEF CancelGrace, cancelReconnectGrace, BookInv, Listed, Marked,
         OwnInv, PlaceTypes, Serves, Owned, Served, Holding, Fd, Conn,
         None, peers, books, accept, client, stopper
<1>14. ASSUME Greet PROVE BookInv'
  BY <1>0, <1>14, SessionAssumption
     DEF Greet, Sent, SlowDrop, Torn, BookInv, Listed, Marked, OwnInv,
         PlaceTypes, Serves, Owned, Served, Holding, Fd, Conn, None, peers,
         books, accept, client, stopper
<1>15. ASSUME EvictGreeted PROVE BookInv'
  BY <1>15, EvictKeeps DEF EvictGreeted, client, stopper
<1>16. ASSUME Alive PROVE BookInv'
  BY <1>0, <1>16, SessionAssumption
     DEF Alive, BookInv, Listed, Marked, OwnInv, PlaceTypes, Serves, Owned,
         Served, Holding, Fd, Conn, None, peers, books, accept, client,
         stopper
<1>17. ASSUME CloseGreeted PROVE BookInv'
  <2>1. /\ apc = "close" /\ afd \in Fd /\ apc' = "forget" /\ afd \notin clients
        /\ UNCHANGED <<conns, clients, evicted, afd, cpc, cfd, quit, mpc>>
        /\ owner' = [owner EXCEPT ![afd] = None]
        /\ shut' = shut \ {owner[afd]} /\ owner[afd] # None
    BY <1>0, <1>17
       DEF CloseGreeted, close, OwnInv, Serves, Holding, BookInv, Listed, books,
           client, stopper
  <2>2. \A g \in Fd \ {afd} : owner'[g] = owner[g] /\ (owner[g] # None =>
                                                       owner[g] # owner[afd])
    BY <1>0, <2>1 DEF OwnInv, PlaceTypes, Owned
  <2>3. Listed'
    BY <1>0, <2>1, <2>2 DEF BookInv, Listed
  <2>4. Marked'
    <3> SUFFICES ASSUME NEW g \in evicted
                 PROVE  /\ owner'[g] # None => owner'[g] \in shut'
                        /\ owner'[g] = None => apc' = "forget" /\ g = afd'
      BY <2>1 DEF Marked
    <3>1. g \in Fd /\ owner[g] # None /\ owner[g] \in shut
      BY <1>0, <2>1 DEF BookInv, Listed, Marked
    <3>2. CASE g = afd
      BY <1>0, <2>1, <3>2 DEF OwnInv, PlaceTypes
    <3>3. CASE g # afd
      BY <2>1, <2>2, <3>1, <3>3
    <3> QED BY <3>2, <3>3
  <2> QED BY <1>0, <2>1, <2>3, <2>4 DEF BookInv
<1>18. ASSUME ForgetGreeted PROVE BookInv'
  BY <1>0, <1>18, SessionAssumption
     DEF ForgetGreeted, forgetClient, BookInv, Listed, Marked, OwnInv,
         PlaceTypes, Serves, Owned, Served, Holding, Fd, Conn, None, peers,
         books, accept, client, stopper
<1>19. ASSUME Broadcast PROVE BookInv'
  BY <1>0, <1>19, SessionAssumption
     DEF Broadcast, BookInv, Listed, Marked, OwnInv, PlaceTypes, Serves,
         Owned, Served, Holding, Fd, Conn, None, peers, books, accept,
         client, stopper
<1>20. ASSUME EvictDeaf PROVE BookInv'
  BY <1>20, EvictKeeps DEF EvictDeaf, accept, client, stopper
<1>21. ASSUME GraceStarts PROVE BookInv'
  BY <1>0, <1>21, SessionAssumption
     DEF GraceStarts, BookInv, Listed, Marked, OwnInv, PlaceTypes, Serves,
         Owned, Served, Holding, Fd, Conn, None, peers, books, accept,
         client, stopper
<1>22. ASSUME GraceReplaced PROVE BookInv'
  BY <1>0, <1>22, SessionAssumption
     DEF GraceReplaced, BookInv, Listed, Marked, OwnInv, PlaceTypes,
         Serves, Owned, Served, Holding, Fd, Conn, None, peers, books,
         accept, client, stopper
<1>23. ASSUME GraceExpires PROVE BookInv'
  BY <1>0, <1>23, SessionAssumption
     DEF GraceExpires, BookInv, Listed, Marked, OwnInv, PlaceTypes, Serves,
         Owned, Served, Holding, Fd, Conn, None, peers, books, accept,
         client, stopper
<1>24. ASSUME HasClient PROVE BookInv'
  BY <1>0, <1>24, SessionAssumption
     DEF HasClient, BookInv, Listed, Marked, OwnInv, PlaceTypes, Serves,
         Owned, Served, Holding, Fd, Conn, None, peers, books, accept,
         client, stopper
<1>25. ASSUME GraceStops PROVE BookInv'
  BY <1>0, <1>25, SessionAssumption
     DEF GraceStops, BookInv, Listed, Marked, OwnInv, PlaceTypes, Serves,
         Owned, Served, Holding, Fd, Conn, None, peers, books, accept,
         client, stopper
<1>26. ASSUME GraceEnds PROVE BookInv'
  BY <1>0, <1>26, SessionAssumption
     DEF GraceEnds, BookInv, Listed, Marked, OwnInv, PlaceTypes, Serves,
         Owned, Served, Holding, Fd, Conn, None, peers, books, accept,
         client, stopper
<1>27. ASSUME Quit PROVE BookInv'
  BY <1>0, <1>27, SessionAssumption
     DEF Quit, BookInv, Listed, Marked, OwnInv, PlaceTypes, Serves, Owned,
         Served, Holding, Fd, Conn, None, peers, books, accept, client,
         stopper
<1>28. ASSUME ShutDown PROVE BookInv'
  <2>1. /\ mpc = "shutdown" /\ mpc' = "swap" /\ quit /\ UNCHANGED quit
        /\ UNCHANGED <<conns, owner, clients, evicted, apc, afd, cpc, cfd>>
        /\ shut' = shut \cup {owner[f] : f \in clients}
    BY <1>0, <1>28 DEF ShutDown, BookInv, books, accept, client
  <2>2. \A f \in clients : f \in Fd /\ owner[f] \in Conn /\ owner[f] <= conns
    BY <1>0 DEF BookInv, Listed, OwnInv, PlaceTypes, Owned
  <2>3. apc = "list" => owner[afd] \notin {owner[f] : f \in clients}
    BY <1>0, <2>2 DEF BookInv, Listed, OwnInv, Serves, Holding, Owned
  <2>4. shut' \subseteq Conn /\ \A i \in shut' : i <= conns
    BY <1>0, <2>1, <2>2 DEF BookInv, Listed
  <2>5. Listed'
    BY <1>0, <2>1, <2>3, <2>4 DEF BookInv, Listed
  <2>6. Marked'
    BY <1>0, <2>1 DEF BookInv, Marked
  <2> QED BY <2>1, <2>5, <2>6 DEF BookInv
<1>29. ASSUME Swap PROVE BookInv'
  BY <1>0, <1>29, SessionAssumption
     DEF Swap, BookInv, Listed, Marked, OwnInv, PlaceTypes, Serves, Owned,
         Served, Holding, Fd, Conn, None, peers, books, accept, client,
         stopper
<1>30. ASSUME Joined PROVE BookInv'
  BY <1>0, <1>30, SessionAssumption
     DEF Joined, BookInv, Listed, Marked, OwnInv, PlaceTypes, Serves,
         Owned, Served, Holding, Fd, Conn, None, peers, books, accept,
         client, stopper
<1>31. CASE UNCHANGED vars
  BY <1>0, <1>31
     DEF vars, BookInv, Listed, Marked, OwnInv, PlaceTypes, Serves, Owned,
         Served, Holding, Fd, Conn, None, peers, books, accept, client,
         stopper
<1> QED
  BY <1>1, <1>2, <1>3, <1>4, <1>5, <1>6, <1>7, <1>8, <1>9, <1>10, <1>11,
     <1>12, <1>13, <1>14, <1>15, <1>16, <1>17, <1>18, <1>19, <1>20, <1>21,
     <1>22, <1>23, <1>24, <1>25, <1>26, <1>27, <1>28, <1>29, <1>30, <1>31
     DEF Next, Peers, threadMain, serveClient, telemetryLoop, graceLoop, stop

(* BookInv holds in every state of the server.                             *)
LEMMA BookAlways == Spec => []BookInv
<1>1. Init => BookInv
  BY DEF Init, BookInv, Listed, Marked
<1> QED BY <1>1, OwnAlways, BookInvHolds, PTL DEF Spec

(* For any number of connections: what is on the list of clients is an     *)
(* open descriptor that was not shut down, unless the server ends.         *)
THEOREM ListIsOpen == Spec => []ListedIsOpen
<1>1. BookInv => ListedIsOpen
  BY DEF BookInv, Listed, ListedIsOpen
<1> QED BY <1>1, BookAlways, PTL

(* For any number of connections: a connection never inherits the mark of  *)
(* an evicted one with the number of its descriptor.                       *)
THEOREM MarksOwn == Spec => []MarkIsOwners
<1>1. BookInv => MarkIsOwners
  BY DEF BookInv, Marked, MarkIsOwners
<1> QED BY <1>1, BookAlways, PTL

-----------------------------------------------------------------------------
(* The grace period.                                                       *)

(* Who cancels a period while it is timed changes its flag or its epoch,   *)
(* and neither comes back; and nobody was listed when hasClient() saw      *)
(* nobody.                                                                 *)
GraceInv ==
  /\ gpc = "timing" /\ visited => ~(gracePending /\ sameEpoch)
  /\ gpc \in {"expired", "stop"} => ~visited
  /\ gpc = "stop" => clients \subseteq late

(* GraceInv is inductive.                                                  *)
LEMMA GraceInvHolds == GraceInv /\ [Next]_vars => GraceInv'
<1> SUFFICES ASSUME GraceInv, [Next]_vars PROVE GraceInv'
  OBVIOUS
<1>0. GraceInv
  OBVIOUS
<1>1. ASSUME NEW k \in Conn, Leave(k) PROVE GraceInv'
  BY <1>0, <1>1, SessionAssumption
     DEF Leave, GraceInv, books, grace
<1>2. ASSUME NEW k \in Conn, Freeze(k) PROVE GraceInv'
  BY <1>0, <1>2, SessionAssumption
     DEF Freeze, GraceInv, books, grace
<1>3. ASSUME NEW k \in Conn, Thaw(k) PROVE GraceInv'
  BY <1>0, <1>3, SessionAssumption
     DEF Thaw, GraceInv, books, grace
<1>4. ASSUME NEW k \in Conn, Handle(k) PROVE GraceInv'
  BY <1>0, <1>4, SessionAssumption
     DEF Handle, GraceInv, books, grace
<1>5. ASSUME NEW k \in Conn, ReadEnds(k) PROVE GraceInv'
  BY <1>0, <1>5, SessionAssumption
     DEF ReadEnds, GraceInv, books, grace
<1>6. ASSUME NEW k \in Conn, Drop(k) PROVE GraceInv'
  BY <1>0, <1>6, SessionAssumption
     DEF Drop, GraceInv, books, grace
<1>7. ASSUME NEW k \in Conn, Close(k) PROVE GraceInv'
  BY <1>0, <1>7, SessionAssumption
     DEF Close, close, GraceInv, books, grace
<1>8. ASSUME NEW k \in Conn, Decide(k) PROVE GraceInv'
  BY <1>0, <1>8, SessionAssumption
     DEF Decide, beginReconnectGrace, GraceInv, books, grace
<1>9. ASSUME NEW f \in Fd, Accept(f) PROVE GraceInv'
  BY <1>0, <1>9, SessionAssumption
     DEF Accept, Lowest, GraceInv, books, grace
<1>10. ASSUME NEW f \in Fd, SendTo(f) PROVE GraceInv'
  BY <1>0, <1>10, SessionAssumption
     DEF SendTo, Sent, SlowDrop, Torn, GraceInv, books, grace
<1>11. ASSUME List PROVE GraceInv'
  BY <1>0, <1>11, SessionAssumption
     DEF List, close, forgetClient, GraceInv, books, grace
<1>12. ASSUME AcceptEnds PROVE GraceInv'
  BY <1>0, <1>12, SessionAssumption
     DEF AcceptEnds, GraceInv, books, grace
<1>13. ASSUME CancelGrace PROVE GraceInv'
  BY <1>0, <1>13, SessionAssumption
     DEF CancelGrace, cancelReconnectGrace, GraceInv, books, grace
<1>14. ASSUME Greet PROVE GraceInv'
  BY <1>0, <1>14, SessionAssumption
     DEF Greet, Sent, SlowDrop, Torn, GraceInv, books, grace
<1>15. ASSUME EvictGreeted PROVE GraceInv'
  BY <1>0, <1>15, SessionAssumption
     DEF EvictGreeted, evictClient, GraceInv, books, grace
<1>16. ASSUME Alive PROVE GraceInv'
  BY <1>0, <1>16, SessionAssumption
     DEF Alive, GraceInv, books, grace
<1>17. ASSUME CloseGreeted PROVE GraceInv'
  BY <1>0, <1>17, SessionAssumption
     DEF CloseGreeted, close, GraceInv, books, grace
<1>18. ASSUME ForgetGreeted PROVE GraceInv'
  BY <1>0, <1>18, SessionAssumption
     DEF ForgetGreeted, forgetClient, GraceInv, books, grace
<1>19. ASSUME Broadcast PROVE GraceInv'
  BY <1>0, <1>19, SessionAssumption
     DEF Broadcast, GraceInv, books, grace
<1>20. ASSUME EvictDeaf PROVE GraceInv'
  BY <1>0, <1>20, SessionAssumption
     DEF EvictDeaf, evictClient, GraceInv, books, grace
<1>21. ASSUME GraceStarts PROVE GraceInv'
  BY <1>0, <1>21, SessionAssumption
     DEF GraceStarts, GraceInv, books, grace
<1>22. ASSUME GraceReplaced PROVE GraceInv'
  BY <1>0, <1>22, SessionAssumption
     DEF GraceReplaced, GraceInv, books, grace
<1>23. ASSUME GraceExpires PROVE GraceInv'
  BY <1>0, <1>23, SessionAssumption
     DEF GraceExpires, GraceInv, books, grace
<1>24. ASSUME HasClient PROVE GraceInv'
  BY <1>0, <1>24, SessionAssumption
     DEF HasClient, GraceInv, books, grace
<1>25. ASSUME GraceStops PROVE GraceInv'
  BY <1>0, <1>25, SessionAssumption
     DEF GraceStops, GraceInv, books, grace
<1>26. ASSUME GraceEnds PROVE GraceInv'
  BY <1>0, <1>26, SessionAssumption
     DEF GraceEnds, GraceInv, books, grace
<1>27. ASSUME Quit PROVE GraceInv'
  BY <1>0, <1>27, SessionAssumption
     DEF Quit, GraceInv, books, grace
<1>28. ASSUME ShutDown PROVE GraceInv'
  BY <1>0, <1>28, SessionAssumption
     DEF ShutDown, GraceInv, books, grace
<1>29. ASSUME Swap PROVE GraceInv'
  BY <1>0, <1>29, SessionAssumption
     DEF Swap, GraceInv, books, grace
<1>30. ASSUME Joined PROVE GraceInv'
  BY <1>0, <1>30, SessionAssumption
     DEF Joined, GraceInv, books, grace
<1>31. CASE UNCHANGED vars
  BY <1>0, <1>31
     DEF vars, GraceInv, books, grace
<1> QED
  BY <1>1, <1>2, <1>3, <1>4, <1>5, <1>6, <1>7, <1>8, <1>9, <1>10, <1>11,
     <1>12, <1>13, <1>14, <1>15, <1>16, <1>17, <1>18, <1>19, <1>20, <1>21,
     <1>22, <1>23, <1>24, <1>25, <1>26, <1>27, <1>28, <1>29, <1>30, <1>31
     DEF Next, Peers, threadMain, serveClient, telemetryLoop, graceLoop, stop

(* For any number of clients: when a grace period stops the run, nobody    *)
(* came while it was timed, and whoever is connected was listed after      *)
(* hasClient() had seen nobody.                                            *)
THEOREM GraceIsQuiet == Spec => GraceUndisturbed
<1>1. Init => GraceInv
  BY DEF Init, GraceInv
<1>2. GraceInv => (gpc = "stop" /\ gpc' = "idle" => ~visited /\ clients \subseteq late)
  BY DEF GraceInv
<1> QED BY <1>1, <1>2, GraceInvHolds, PTL DEF Spec, GraceUndisturbed

-----------------------------------------------------------------------------
(* What stop() leaves.                                                     *)

(* The second stop() finds no accept thread any more, so the threads it    *)
(* takes are all there will ever be.                                       *)
EndInv ==
  /\ mpc \in {"shutdown", "swap", "join"} => stops \in {1, 2}
  /\ mpc = "serve" => stops = 0
  /\ mpc = "again" => stops = 1
  /\ mpc = "ended" => stops = 2
  /\ mpc \in {"serve", "shutdown", "swap", "join", "again", "ended"}
  /\ mpc = "again" \/ stops = 2 => apc = "gone"
  /\ mpc = "join" /\ stops = 2 => \A k \in Conn : cpc[k] = "none" \/ k \in joining
  /\ mpc = "ended" => \A k \in Conn : cpc[k] \in {"none", "gone"}

(* EndInv is inductive, relative to OwnInv.                                *)
LEMMA EndInvHolds == OwnInv /\ EndInv /\ [Next]_vars => EndInv'
<1> SUFFICES ASSUME OwnInv, EndInv, [Next]_vars PROVE EndInv'
  OBVIOUS
<1>0. OwnInv /\ EndInv
  OBVIOUS
<1>1. ASSUME NEW k \in Conn, Leave(k) PROVE EndInv'
  BY <1>0, <1>1, SessionAssumption
     DEF Leave, EndInv, OwnInv, PlaceTypes, Serves, Holding, accept,
         client, stopper
<1>2. ASSUME NEW k \in Conn, Freeze(k) PROVE EndInv'
  BY <1>0, <1>2, SessionAssumption
     DEF Freeze, EndInv, OwnInv, PlaceTypes, Serves, Holding, accept,
         client, stopper
<1>3. ASSUME NEW k \in Conn, Thaw(k) PROVE EndInv'
  BY <1>0, <1>3, SessionAssumption
     DEF Thaw, EndInv, OwnInv, PlaceTypes, Serves, Holding, accept, client,
         stopper
<1>4. ASSUME NEW k \in Conn, Handle(k) PROVE EndInv'
  BY <1>0, <1>4, SessionAssumption
     DEF Handle, EndInv, OwnInv, PlaceTypes, Serves, Holding, accept,
         client, stopper
<1>5. ASSUME NEW k \in Conn, ReadEnds(k) PROVE EndInv'
  BY <1>0, <1>5, SessionAssumption
     DEF ReadEnds, EndInv, OwnInv, PlaceTypes, Serves, Holding, accept,
         client, stopper
<1>6. ASSUME NEW k \in Conn, Drop(k) PROVE EndInv'
  BY <1>0, <1>6, SessionAssumption
     DEF Drop, EndInv, OwnInv, PlaceTypes, Serves, Holding, accept, client,
         stopper
<1>7. ASSUME NEW k \in Conn, Close(k) PROVE EndInv'
  BY <1>0, <1>7, SessionAssumption
     DEF Close, close, EndInv, OwnInv, PlaceTypes, Serves, Holding, accept,
         client, stopper
<1>8. ASSUME NEW k \in Conn, Decide(k) PROVE EndInv'
  BY <1>0, <1>8, SessionAssumption
     DEF Decide, beginReconnectGrace, EndInv, OwnInv, PlaceTypes, Serves,
         Holding, accept, client, stopper
<1>9. ASSUME NEW f \in Fd, Accept(f) PROVE EndInv'
  BY <1>0, <1>9, SessionAssumption
     DEF Accept, Lowest, EndInv, OwnInv, PlaceTypes, Serves, Holding,
         accept, client, stopper
<1>10. ASSUME NEW f \in Fd, SendTo(f) PROVE EndInv'
  BY <1>0, <1>10, SessionAssumption
     DEF SendTo, Sent, SlowDrop, Torn, EndInv, OwnInv, PlaceTypes, Serves,
         Holding, accept, client, stopper
<1>11. ASSUME List PROVE EndInv'
  BY <1>0, <1>11, SessionAssumption
     DEF List, close, forgetClient, EndInv, OwnInv, PlaceTypes, Serves,
         Holding, accept, client, stopper
<1>12. ASSUME AcceptEnds PROVE EndInv'
  BY <1>0, <1>12, SessionAssumption
     DEF AcceptEnds, EndInv, OwnInv, PlaceTypes, Serves, Holding, accept,
         client, stopper
<1>13. ASSUME CancelGrace PROVE EndInv'
  BY <1>0, <1>13, SessionAssumption
     DEF CancelGrace, cancelReconnectGrace, EndInv, OwnInv, PlaceTypes,
         Serves, Holding, accept, client, stopper
<1>14. ASSUME Greet PROVE EndInv'
  BY <1>0, <1>14, SessionAssumption
     DEF Greet, Sent, SlowDrop, Torn, EndInv, OwnInv, PlaceTypes, Serves,
         Holding, accept, client, stopper
<1>15. ASSUME EvictGreeted PROVE EndInv'
  BY <1>0, <1>15, SessionAssumption
     DEF EvictGreeted, evictClient, EndInv, OwnInv, PlaceTypes, Serves,
         Holding, accept, client, stopper
<1>16. ASSUME Alive PROVE EndInv'
  BY <1>0, <1>16, SessionAssumption
     DEF Alive, EndInv, OwnInv, PlaceTypes, Serves, Holding, accept,
         client, stopper
<1>17. ASSUME CloseGreeted PROVE EndInv'
  BY <1>0, <1>17, SessionAssumption
     DEF CloseGreeted, close, EndInv, OwnInv, PlaceTypes, Serves, Holding,
         accept, client, stopper
<1>18. ASSUME ForgetGreeted PROVE EndInv'
  BY <1>0, <1>18, SessionAssumption
     DEF ForgetGreeted, forgetClient, EndInv, OwnInv, PlaceTypes, Serves,
         Holding, accept, client, stopper
<1>19. ASSUME Broadcast PROVE EndInv'
  BY <1>0, <1>19, SessionAssumption
     DEF Broadcast, EndInv, OwnInv, PlaceTypes, Serves, Holding, accept,
         client, stopper
<1>20. ASSUME EvictDeaf PROVE EndInv'
  BY <1>0, <1>20, SessionAssumption
     DEF EvictDeaf, evictClient, EndInv, OwnInv, PlaceTypes, Serves,
         Holding, accept, client, stopper
<1>21. ASSUME GraceStarts PROVE EndInv'
  BY <1>0, <1>21, SessionAssumption
     DEF GraceStarts, EndInv, OwnInv, PlaceTypes, Serves, Holding, accept,
         client, stopper
<1>22. ASSUME GraceReplaced PROVE EndInv'
  BY <1>0, <1>22, SessionAssumption
     DEF GraceReplaced, EndInv, OwnInv, PlaceTypes, Serves, Holding,
         accept, client, stopper
<1>23. ASSUME GraceExpires PROVE EndInv'
  BY <1>0, <1>23, SessionAssumption
     DEF GraceExpires, EndInv, OwnInv, PlaceTypes, Serves, Holding, accept,
         client, stopper
<1>24. ASSUME HasClient PROVE EndInv'
  BY <1>0, <1>24, SessionAssumption
     DEF HasClient, EndInv, OwnInv, PlaceTypes, Serves, Holding, accept,
         client, stopper
<1>25. ASSUME GraceStops PROVE EndInv'
  BY <1>0, <1>25, SessionAssumption
     DEF GraceStops, EndInv, OwnInv, PlaceTypes, Serves, Holding, accept,
         client, stopper
<1>26. ASSUME GraceEnds PROVE EndInv'
  BY <1>0, <1>26, SessionAssumption
     DEF GraceEnds, EndInv, OwnInv, PlaceTypes, Serves, Holding, accept,
         client, stopper
<1>27. ASSUME Quit PROVE EndInv'
  BY <1>0, <1>27, SessionAssumption
     DEF Quit, EndInv, OwnInv, PlaceTypes, Serves, Holding, accept, client,
         stopper
<1>28. ASSUME ShutDown PROVE EndInv'
  BY <1>0, <1>28, SessionAssumption
     DEF ShutDown, EndInv, OwnInv, PlaceTypes, Serves, Holding, accept,
         client, stopper
<1>29. ASSUME Swap PROVE EndInv'
  BY <1>0, <1>29, SessionAssumption
     DEF Swap, EndInv, OwnInv, PlaceTypes, Serves, Holding, accept, client,
         stopper
<1>30. ASSUME Joined PROVE EndInv'
  BY <1>0, <1>30, SessionAssumption
     DEF Joined, EndInv, OwnInv, PlaceTypes, Serves, Holding, accept,
         client, stopper
<1>31. CASE UNCHANGED vars
  BY <1>0, <1>31
     DEF vars, EndInv, OwnInv, PlaceTypes, Serves, Holding, accept, client,
         stopper
<1> QED
  BY <1>1, <1>2, <1>3, <1>4, <1>5, <1>6, <1>7, <1>8, <1>9, <1>10, <1>11,
     <1>12, <1>13, <1>14, <1>15, <1>16, <1>17, <1>18, <1>19, <1>20, <1>21,
     <1>22, <1>23, <1>24, <1>25, <1>26, <1>27, <1>28, <1>29, <1>30, <1>31
     DEF Next, Peers, threadMain, serveClient, telemetryLoop, graceLoop, stop

(* For any number of connections: when the server has ended every thread   *)
(* is gone and every descriptor closed.                                    *)
THEOREM NobodyIsLeft == Spec => []NobodyLeft
<1>1. Init => EndInv
  BY DEF Init, EndInv
<1>2. OwnInv /\ EndInv => NobodyLeft
  BY DEF OwnInv, PlaceTypes, Owned, Holding, Served, EndInv, NobodyLeft
<1> QED BY <1>1, <1>2, OwnAlways, EndInvHolds, PTL DEF Spec

-----------------------------------------------------------------------------
(* Types.                                                                  *)

(* The types that OwnInv and BookInv do not give.                          *)
RestTypes ==
  /\ left \subseteq Conn /\ frozen \subseteq Conn
  /\ drops \in [Fd -> 0 .. MaxDrops]
  /\ apc \in {"accept", "list", "cancel", "greet", "evict", "alive", "close",
              "forget", "gone"}
  /\ last \in [Conn -> BOOLEAN] /\ wasEvicted \in [Conn -> BOOLEAN]
  /\ tpc \in {"sleep", "send", "evict", "gone"} /\ tfds \subseteq Fd
  /\ tfd \in Fd \cup {None}
  /\ gpc \in {"idle", "timing", "expired", "stop", "gone"}
  /\ gracePending \in BOOLEAN /\ sameEpoch \in BOOLEAN /\ visited \in BOOLEAN
  /\ late \subseteq Fd
  /\ joining \subseteq Conn /\ quit \in BOOLEAN
  /\ run \in BOOLEAN /\ abandoned \in BOOLEAN

(* RestTypes is inductive, relative to OwnInv and BookInv.                 *)
LEMMA RestTypesHold == OwnInv /\ BookInv /\ RestTypes /\ [Next]_vars => RestTypes'
<1> SUFFICES ASSUME OwnInv, BookInv, RestTypes, [Next]_vars PROVE RestTypes'
  OBVIOUS
<1>0. OwnInv /\ BookInv /\ RestTypes
  OBVIOUS
<1>1. ASSUME NEW k \in Conn, Leave(k) PROVE RestTypes'
  BY <1>0, <1>1, SessionAssumption
     DEF Leave, RestTypes, OwnInv, PlaceTypes, Serves, Holding, BookInv,
         Listed, None, vars, peers, books, accept, client, sender, grace,
         stopper
<1>2. ASSUME NEW k \in Conn, Freeze(k) PROVE RestTypes'
  BY <1>0, <1>2, SessionAssumption
     DEF Freeze, RestTypes, OwnInv, PlaceTypes, Serves, Holding, BookInv,
         Listed, None, vars, peers, books, accept, client, sender, grace,
         stopper
<1>3. ASSUME NEW k \in Conn, Thaw(k) PROVE RestTypes'
  BY <1>0, <1>3, SessionAssumption
     DEF Thaw, RestTypes, OwnInv, PlaceTypes, Serves, Holding, BookInv,
         Listed, None, vars, peers, books, accept, client, sender, grace,
         stopper
<1>4. ASSUME NEW k \in Conn, Handle(k) PROVE RestTypes'
  BY <1>0, <1>4, SessionAssumption
     DEF Handle, RestTypes, OwnInv, PlaceTypes, Serves, Holding, BookInv,
         Listed, None, vars, peers, books, accept, client, sender, grace,
         stopper
<1>5. ASSUME NEW k \in Conn, ReadEnds(k) PROVE RestTypes'
  BY <1>0, <1>5, SessionAssumption
     DEF ReadEnds, RestTypes, OwnInv, PlaceTypes, Serves, Holding, BookInv,
         Listed, None, vars, peers, books, accept, client, sender, grace,
         stopper
<1>6. ASSUME NEW k \in Conn, Drop(k) PROVE RestTypes'
  <2>1. /\ UNCHANGED <<left, frozen, apc, tpc, tfds, tfd, gpc, gracePending>>
        /\ UNCHANGED <<sameEpoch, visited, late, joining, quit, run, abandoned>>
        /\ drops' = [drops EXCEPT ![cfd[k]] = 0]
    BY <1>6 DEF Drop, peers, accept, sender, grace, stopper
  <2>2. drops \in [Fd -> 0 .. MaxDrops] /\ 0 \in 0 .. MaxDrops
    BY <1>0, SessionAssumption DEF RestTypes
  <2>3. drops' \in [Fd -> 0 .. MaxDrops]
    BY <2>1, <2>2
  <2>4. /\ wasEvicted' = [wasEvicted EXCEPT ![k] = cfd[k] \in evicted]
        /\ last' = [last EXCEPT ![k] = clients' = {}]
    BY <1>6 DEF Drop
  <2>5. wasEvicted \in [Conn -> BOOLEAN] /\ last \in [Conn -> BOOLEAN]
    BY <1>0 DEF RestTypes
  <2>6. wasEvicted' \in [Conn -> BOOLEAN]
    <3> DEFINE marked == cfd[k] \in evicted
    <3>1. marked \in BOOLEAN
      OBVIOUS
    <3>2. wasEvicted' = [wasEvicted EXCEPT ![k] = marked]
      BY <2>4
    <3> HIDE DEF marked
    <3> QED BY <2>5, <3>1, <3>2, Zenon
  <2>7. last' \in [Conn -> BOOLEAN]
    BY <2>4, <2>5, Zenon
  <2> QED BY <1>0, <2>1, <2>3, <2>6, <2>7 DEF RestTypes
<1>7. ASSUME NEW k \in Conn, Close(k) PROVE RestTypes'
  BY <1>0, <1>7, SessionAssumption
     DEF Close, close, RestTypes, OwnInv, PlaceTypes, Serves, Holding,
         BookInv, Listed, None, vars, peers, books, accept, client, sender,
         grace, stopper
<1>8. ASSUME NEW k \in Conn, Decide(k) PROVE RestTypes'
  <2>1. /\ UNCHANGED <<left, frozen, drops, apc, tpc, tfds, tfd, gpc>>
        /\ UNCHANGED <<visited, late, joining, quit, abandoned>>
    BY <1>8 DEF Decide, peers, books, accept, sender, stopper
  <2>2. last' \in [Conn -> BOOLEAN]
    BY <1>0, <1>8, Zenon DEF Decide, RestTypes
  <2>3. wasEvicted' \in [Conn -> BOOLEAN]
    BY <1>0, <1>8, Zenon DEF Decide, RestTypes
  <2>4. run' = run \/ run' = FALSE
    BY <1>8 DEF Decide
  <2>5. run' \in BOOLEAN
    BY <1>0, <2>4, Zenon DEF RestTypes
  <2>6. CASE beginReconnectGrace
    <3>1. gracePending' \in BOOLEAN
      BY <2>6, Zenon DEF beginReconnectGrace
    <3>2. sameEpoch' \in BOOLEAN
      BY <2>6, Zenon DEF beginReconnectGrace
    <3> QED BY <1>0, <2>1, <2>2, <2>3, <2>5, <3>1, <3>2 DEF RestTypes
  <2>7. CASE UNCHANGED <<gracePending, sameEpoch>>
    BY <1>0, <2>1, <2>2, <2>3, <2>5, <2>7 DEF RestTypes
  <2> QED BY <1>8, <2>6, <2>7 DEF Decide
<1>9. ASSUME NEW f \in Fd, Accept(f) PROVE RestTypes'
  BY <1>0, <1>9, SessionAssumption
     DEF Accept, Lowest, RestTypes, OwnInv, PlaceTypes, Serves, Holding,
         BookInv, Listed, None, vars, peers, books, accept, client, sender,
         grace, stopper
<1>10. ASSUME NEW f \in Fd, SendTo(f) PROVE RestTypes'
  <2>1. /\ UNCHANGED <<left, frozen, apc, last, wasEvicted, gpc, gracePending>>
        /\ UNCHANGED <<sameEpoch, visited, late, joining, quit, run, abandoned>>
        /\ tfds' = tfds \ {f}
        /\ tpc' \in {"sleep", "send", "evict"} /\ tfd' \in {tfd, f}
    BY <1>10 DEF SendTo, Onward, peers, accept, client, grace, stopper
  <2>2. UNCHANGED drops \/ SlowDrop(f)
    BY <1>10 DEF SendTo, Sent, Torn
  <2>3. drops' \in [Fd -> 0 .. MaxDrops]
    BY <1>0, <2>2, SessionAssumption DEF SlowDrop, RestTypes
  <2> QED BY <1>0, <2>1, <2>3 DEF RestTypes
<1>11. ASSUME List PROVE RestTypes'
  BY <1>0, <1>11, SessionAssumption
     DEF List, close, forgetClient, RestTypes, OwnInv, PlaceTypes, Serves,
         Holding, BookInv, Listed, None, vars, peers, books, accept,
         client, sender, grace, stopper
<1>12. ASSUME AcceptEnds PROVE RestTypes'
  BY <1>0, <1>12, SessionAssumption
     DEF AcceptEnds, RestTypes, OwnInv, PlaceTypes, Serves, Holding,
         BookInv, Listed, None, vars, peers, books, accept, client, sender,
         grace, stopper
<1>13. ASSUME CancelGrace PROVE RestTypes'
  BY <1>0, <1>13, SessionAssumption
     DEF CancelGrace, cancelReconnectGrace, RestTypes, OwnInv, PlaceTypes,
         Serves, Holding, BookInv, Listed, None, vars, peers, books,
         accept, client, sender, grace, stopper
<1>14. ASSUME Greet PROVE RestTypes'
  BY <1>0, <1>14, SessionAssumption
     DEF Greet, Sent, SlowDrop, Torn, RestTypes, OwnInv, PlaceTypes,
         Serves, Holding, BookInv, Listed, None, vars, peers, books,
         accept, client, sender, grace, stopper
<1>15. ASSUME EvictGreeted PROVE RestTypes'
  BY <1>0, <1>15, SessionAssumption
     DEF EvictGreeted, evictClient, RestTypes, OwnInv, PlaceTypes, Serves,
         Holding, BookInv, Listed, None, vars, peers, books, accept,
         client, sender, grace, stopper
<1>16. ASSUME Alive PROVE RestTypes'
  BY <1>0, <1>16, SessionAssumption
     DEF Alive, RestTypes, OwnInv, PlaceTypes, Serves, Holding, BookInv,
         Listed, None, vars, peers, books, accept, client, sender, grace,
         stopper
<1>17. ASSUME CloseGreeted PROVE RestTypes'
  BY <1>0, <1>17, SessionAssumption
     DEF CloseGreeted, close, RestTypes, OwnInv, PlaceTypes, Serves,
         Holding, BookInv, Listed, None, vars, peers, books, accept,
         client, sender, grace, stopper
<1>18. ASSUME ForgetGreeted PROVE RestTypes'
  BY <1>0, <1>18, SessionAssumption
     DEF ForgetGreeted, forgetClient, RestTypes, OwnInv, PlaceTypes,
         Serves, Holding, BookInv, Listed, None, vars, peers, books,
         accept, client, sender, grace, stopper
<1>19. ASSUME Broadcast PROVE RestTypes'
  BY <1>0, <1>19, SessionAssumption
     DEF Broadcast, RestTypes, OwnInv, PlaceTypes, Serves, Holding,
         BookInv, Listed, None, vars, peers, books, accept, client, sender,
         grace, stopper
<1>20. ASSUME EvictDeaf PROVE RestTypes'
  <2>1. /\ UNCHANGED <<left, frozen, drops, apc, last, wasEvicted, tfds, gpc>>
        /\ UNCHANGED <<gracePending, sameEpoch, visited, late, joining, quit, run>>
        /\ UNCHANGED abandoned /\ tfd' = None
        /\ tpc' \in {"sleep", "send"}
    BY <1>20 DEF EvictDeaf, Onward, accept, client, grace, stopper
  <2> QED BY <1>0, <2>1 DEF RestTypes
<1>21. ASSUME GraceStarts PROVE RestTypes'
  BY <1>0, <1>21 DEF GraceStarts, RestTypes, peers, books, accept, client,
     sender, grace, stopper
<1>22. ASSUME GraceReplaced PROVE RestTypes'
  BY <1>0, <1>22 DEF GraceReplaced, RestTypes, peers, books, accept, client,
     sender, grace, stopper
<1>23. ASSUME GraceExpires PROVE RestTypes'
  BY <1>0, <1>23 DEF GraceExpires, RestTypes, peers, books, accept, client,
     sender, grace, stopper
<1>24. ASSUME HasClient PROVE RestTypes'
  BY <1>0, <1>24 DEF HasClient, RestTypes, peers, books, accept, client,
     sender, grace, stopper
<1>25. ASSUME GraceStops PROVE RestTypes'
  BY <1>0, <1>25, ZenonT(60) DEF GraceStops, RestTypes, peers, books, accept, client,
     sender, grace, stopper
<1>26. ASSUME GraceEnds PROVE RestTypes'
  BY <1>0, <1>26 DEF GraceEnds, RestTypes, peers, books, accept, client,
     sender, grace, stopper
<1>27. ASSUME Quit PROVE RestTypes'
  BY <1>0, <1>27, ZenonT(60) DEF Quit, RestTypes, peers, books, accept,
     client, sender, grace, stopper
<1>28. ASSUME ShutDown PROVE RestTypes'
  BY <1>0, <1>28 DEF ShutDown, RestTypes, peers, books, accept, client,
     sender, grace, stopper
<1>29. ASSUME Swap PROVE RestTypes'
  BY <1>0, <1>29 DEF Swap, RestTypes, peers, books, accept, client, sender,
     grace, stopper
<1>30. ASSUME Joined PROVE RestTypes'
  BY <1>0, <1>30 DEF Joined, RestTypes, peers, books, accept, client, sender,
     grace, stopper
<1>31. CASE UNCHANGED vars
  BY <1>0, <1>31
     DEF RestTypes, vars, peers, books, accept, client, sender, grace, stopper
<1> QED
  BY <1>1, <1>2, <1>3, <1>4, <1>5, <1>6, <1>7, <1>8, <1>9, <1>10, <1>11,
     <1>12, <1>13, <1>14, <1>15, <1>16, <1>17, <1>18, <1>19, <1>20, <1>21,
     <1>22, <1>23, <1>24, <1>25, <1>26, <1>27, <1>28, <1>29, <1>30, <1>31
     DEF Next, Peers, threadMain, serveClient, telemetryLoop, graceLoop, stop

(* The types at the start.                                                 *)
LEMMA RestInit == ASSUME Init PROVE RestTypes
<1>1. /\ left = {} /\ frozen = {} /\ drops = [f \in Fd |-> 0]
      /\ apc = "accept" /\ tpc = "sleep" /\ tfds = {} /\ tfd = None
      /\ gpc = "idle" /\ joining = {} /\ late = {}
  BY DEF Init
<1>2. last \in [Conn -> BOOLEAN]
  BY Zenon DEF Init
<1>3. wasEvicted \in [Conn -> BOOLEAN]
  BY Zenon DEF Init
<1>4. gracePending \in BOOLEAN /\ sameEpoch \in BOOLEAN /\ visited \in BOOLEAN
  BY Zenon DEF Init
<1>5. quit \in BOOLEAN /\ run \in BOOLEAN /\ abandoned \in BOOLEAN
  BY Zenon DEF Init
<1> QED BY <1>1, <1>2, <1>3, <1>4, <1>5, SessionAssumption DEF RestTypes

(* For any number of clients, connections and drops: every variable keeps  *)
(* its type.                                                               *)
THEOREM TypeCorrect == Spec => []TypeOK
<1>1. Init => RestTypes
  BY RestInit
<1>2. OwnInv /\ BookInv /\ EndInv /\ RestTypes => TypeOK
  BY DEF OwnInv, PlaceTypes, BookInv, Listed, EndInv, RestTypes, TypeOK
<1>3. Init => EndInv
  BY DEF Init, EndInv
<1> QED BY <1>1, <1>2, <1>3, OwnAlways, BookAlways, EndInvHolds, RestTypesHold,
           PTL DEF Spec

-----------------------------------------------------------------------------
(* Who is woken, and who ends a run that nobody watches.                   *)

(* A client thread that reads is on the list, or what it reads from was    *)
(* shut down: it sees the end of it.                                       *)
ReadersListed ==
  \A k \in Conn : cpc[k] = "read" => cfd[k] \in clients \/ k \in shut

(* Two client threads have different descriptors.                          *)
LEMMA OwnDescriptors ==
  ASSUME OwnInv, NEW j \in Conn, NEW k \in Conn, j # k,
         cpc[j] \in Served, cpc[k] \in Served
  PROVE  cfd[j] # cfd[k] /\ cfd[j] \in Fd /\ owner[cfd[j]] = j
BY DEF OwnInv, Serves

(* ReadersListed is inductive, relative to OwnInv and BookInv.             *)
LEMMA ReadersHold ==
  OwnInv /\ BookInv /\ ReadersListed /\ [Next]_vars => ReadersListed'
<1> SUFFICES ASSUME OwnInv, BookInv, ReadersListed, [Next]_vars
             PROVE  ReadersListed'
  OBVIOUS
<1>1. CASE UNCHANGED <<cpc, cfd, clients, shut>>
  BY <1>1 DEF ReadersListed
<1>2. ASSUME NEW k \in Conn, Handle(k) \/ ReadEnds(k) \/ Decide(k)
      PROVE  ReadersListed'
  BY <1>2 DEF Handle, ReadEnds, Decide, ReadersListed, OwnInv, PlaceTypes,
     peers, books
<1>3. ASSUME NEW k \in Conn, Drop(k) PROVE ReadersListed'
  <2>1. /\ cpc[k] = "drop" /\ cpc' = [cpc EXCEPT ![k] = "close"]
        /\ clients' = clients \ {cfd[k]} /\ UNCHANGED <<cfd, shut>>
    BY <1>3 DEF Drop, peers
  <2> SUFFICES ASSUME NEW j \in Conn, cpc'[j] = "read"
               PROVE  cfd'[j] \in clients' \/ j \in shut'
    BY DEF ReadersListed
  <2>2. j # k /\ cpc[j] = "read"
    BY <2>1 DEF OwnInv, PlaceTypes
  <2>3. cfd[j] # cfd[k]
    BY <2>1, <2>2, OwnDescriptors DEF Served
  <2> QED BY <2>1, <2>2, <2>3 DEF ReadersListed
<1>4. ASSUME NEW k \in Conn, Close(k) PROVE ReadersListed'
  <2>1. /\ cpc[k] = "close" /\ cpc' = [cpc EXCEPT ![k] = "decide"]
        /\ cfd' = [cfd EXCEPT ![k] = None] /\ UNCHANGED clients
        /\ shut' = shut \ {owner[cfd[k]]}
    BY <1>4 DEF Close, close, books
  <2>2. owner[cfd[k]] = k
    BY <2>1 DEF OwnInv, Serves, Served
  <2> QED BY <2>1, <2>2 DEF ReadersListed, OwnInv, PlaceTypes
<1>5. ASSUME List PROVE ReadersListed'
  <2>1. /\ apc = "list" /\ UNCHANGED <<cpc, cfd>> /\ clients \subseteq clients'
        /\ shut' = shut \/ shut' = shut \ {owner[afd]}
    BY <1>5 DEF List, close, peers, client
  <2>2. cpc[owner[afd]] = "none"
    BY <2>1 DEF OwnInv, Serves, Holding
  <2> QED BY <2>1, <2>2 DEF ReadersListed
<1>6. ASSUME EvictGreeted \/ EvictDeaf PROVE ReadersListed'
  <2>1. PICK f : evictClient(f)
    BY <1>6 DEF EvictGreeted, EvictDeaf
  <2>2. UNCHANGED <<cpc, cfd>>
    BY <1>6 DEF EvictGreeted, EvictDeaf, client
  <2> SUFFICES ASSUME NEW k \in Conn, cpc'[k] = "read"
               PROVE  cfd'[k] \in clients' \/ k \in shut'
    BY DEF ReadersListed
  <2>3. owner[cfd[k]] = k /\ (cfd[k] \in clients \/ k \in shut)
    BY <2>2 DEF ReadersListed, OwnInv, Serves, Served
  <2> QED BY <2>1, <2>2, <2>3 DEF evictClient
<1>7. ASSUME Alive PROVE ReadersListed'
  <2>1. CASE afd \in clients
    <3>1. PICK pc : cpc' = [cpc EXCEPT ![owner[afd]] = pc]
      BY <1>7, <2>1 DEF Alive
    <3>2. /\ cfd' = [cfd EXCEPT ![owner[afd]] = afd]
          /\ UNCHANGED <<clients, shut>>
      BY <1>7, <2>1 DEF Alive, peers, books
    <3> QED BY <2>1, <3>1, <3>2 DEF ReadersListed, OwnInv, PlaceTypes
  <2>2. CASE afd \notin clients
    BY <1>7, <2>2 DEF Alive, ReadersListed, peers, books
  <2> QED BY <2>1, <2>2
<1>8. ASSUME CloseGreeted PROVE ReadersListed'
  <2>1. /\ apc = "close" /\ UNCHANGED <<cpc, cfd, clients>>
        /\ shut' = shut \ {owner[afd]}
    BY <1>8 DEF CloseGreeted, close, books, client
  <2>2. cpc[owner[afd]] = "none"
    BY <2>1 DEF OwnInv, Serves, Holding
  <2> QED BY <2>1, <2>2 DEF ReadersListed
<1>9. CASE ShutDown
  BY <1>9 DEF ShutDown, ReadersListed, client, books
<1> QED
  BY <1>1, <1>2, <1>3, <1>4, <1>5, <1>6, <1>7, <1>8, <1>9
     DEF Next, Peers, Leave, Freeze, Thaw, threadMain, Accept, AcceptEnds,
         CancelGrace, Greet, ForgetGreeted, forgetClient, serveClient,
         telemetryLoop, Broadcast, SendTo, graceLoop, GraceStarts,
         GraceReplaced, GraceExpires, HasClient, GraceStops, GraceEnds, Quit,
         stop, Swap, Joined, vars, peers, books, client

(* Once a stop() has gone past the list, what is read from was shut down:  *)
(* a client that comes later gets a thread that does not read.             *)
Past == mpc # "serve" /\ ~(mpc = "shutdown" /\ stops = 1)

ReadersWoken == Past => \A k \in Conn : cpc[k] = "read" => k \in shut

(* ReadersWoken is inductive, relative to the other invariants.            *)
LEMMA WokenHolds ==
  /\ OwnInv /\ BookInv /\ EndInv /\ ReadersListed /\ ReadersWoken
  /\ [Next]_vars
  => ReadersWoken'
<1> SUFFICES ASSUME OwnInv, BookInv, EndInv, ReadersListed, ReadersWoken,
                    [Next]_vars
             PROVE  ReadersWoken'
  OBVIOUS
<1>1. CASE UNCHANGED <<cpc, shut, mpc, stops>>
  BY <1>1 DEF ReadersWoken, Past
<1>2. ASSUME NEW k \in Conn, Handle(k) \/ ReadEnds(k) \/ Drop(k) \/ Decide(k)
      PROVE  ReadersWoken'
  BY <1>2 DEF Handle, ReadEnds, Drop, Decide, ReadersWoken, Past, OwnInv,
     PlaceTypes, peers, stopper
<1>3. ASSUME NEW k \in Conn, Close(k) PROVE ReadersWoken'
  <2>1. /\ cpc[k] = "close" /\ cpc' = [cpc EXCEPT ![k] = "decide"]
        /\ shut' = shut \ {owner[cfd[k]]} /\ UNCHANGED <<mpc, stops>>
    BY <1>3 DEF Close, close, stopper
  <2>2. owner[cfd[k]] = k
    BY <2>1 DEF OwnInv, Serves, Served
  <2> QED BY <2>1, <2>2 DEF ReadersWoken, Past, OwnInv, PlaceTypes
<1>4. ASSUME List \/ CloseGreeted PROVE ReadersWoken'
  <2>1. /\ apc \in Holding /\ UNCHANGED <<cpc, mpc, stops>>
        /\ shut' = shut \/ shut' = shut \ {owner[afd]}
    BY <1>4 DEF List, CloseGreeted, close, peers, client, stopper, Holding
  <2>2. cpc[owner[afd]] = "none"
    BY <2>1 DEF OwnInv, Serves
  <2> QED BY <2>1, <2>2 DEF ReadersWoken, Past
<1>5. ASSUME EvictGreeted \/ EvictDeaf PROVE ReadersWoken'
  BY <1>5 DEF EvictGreeted, EvictDeaf, evictClient, ReadersWoken, Past,
     client, stopper
<1>6. ASSUME Alive PROVE ReadersWoken'
  <2>1. UNCHANGED <<shut, mpc, stops>> /\ (Past => quit)
    BY <1>6 DEF Alive, peers, stopper, BookInv, Past
  <2>2. Past => \A k \in Conn : cpc'[k] = "read" => cpc[k] = "read"
    BY <1>6, <2>1 DEF Alive, OwnInv, PlaceTypes
  <2> QED BY <2>1, <2>2 DEF ReadersWoken, Past
<1>7. CASE ShutDown
  <2>1. /\ shut' = shut \cup {owner[f] : f \in clients}
        /\ UNCHANGED <<cpc, stops>>
    BY <1>7 DEF ShutDown, client
  <2> SUFFICES ASSUME NEW k \in Conn, cpc'[k] = "read" PROVE k \in shut'
    BY DEF ReadersWoken
  <2>2. owner[cfd[k]] = k /\ (cfd[k] \in clients \/ k \in shut)
    BY <2>1 DEF ReadersListed, OwnInv, Serves, Served
  <2> QED BY <2>1, <2>2
<1>8. CASE Quit \/ Swap \/ Joined
  BY <1>8 DEF Quit, Swap, Joined, ReadersWoken, Past, EndInv, client, peers
<1> QED
  BY <1>1, <1>2, <1>3, <1>4, <1>5, <1>6, <1>7, <1>8
     DEF Next, Peers, Leave, Freeze, Thaw, threadMain, Accept, AcceptEnds,
         CancelGrace, Greet, ForgetGreeted, serveClient, telemetryLoop,
         Broadcast, SendTo, graceLoop, GraceStarts, GraceReplaced,
         GraceExpires, HasClient, GraceStops, GraceEnds, stop, vars, peers,
         client, stopper

(* For any number of connections, the safe half of StopEnds: whoever       *)
(* stop() waits for in join() has been woken, and the accept thread and    *)
(* the others are asked to end.                                            *)
THEOREM JoinedAreWoken ==
  Spec => [](mpc = "join" => quit /\ \A k \in Conn : cpc[k] = "read" => k \in shut)
<1>1. Init => EndInv /\ ReadersListed /\ ReadersWoken
  BY DEF Init, EndInv, ReadersListed, ReadersWoken, Past
<1>2. BookInv /\ ReadersWoken =>
        (mpc = "join" => quit /\ \A k \in Conn : cpc[k] = "read" => k \in shut)
  BY DEF BookInv, ReadersWoken, Past
<1> QED BY <1>1, <1>2, OwnAlways, BookAlways, EndInvHolds, ReadersHold,
           WokenHolds, PTL DEF Spec

(* Somebody is at work who ends the run or notes that it goes on: a client *)
(* thread on its way out, the accept thread with a new client, or the one  *)
(* that times the grace period.                                            *)
Leaving(k) ==
  \/ cpc[k] = "read" /\ k \in shut
  \/ cpc[k] = "drop"
  \/ cpc[k] \in {"close", "decide"} /\ last[k]

AtWork ==
  \/ \E k \in Conn : Leaving(k)
  \/ apc \in Holding \ {"list"}
  \/ gracePending /\ gpc # "gone"
  \/ gpc \in {"expired", "stop"}

RunWatched ==
  /\ gpc = "gone" => quit
  /\ run /\ clients = {} /\ ~quit /\ ~abandoned => AtWork

(* A client that is taken off the list leaves somebody at work.            *)
LEMMA EvictedLeaves ==
  ASSUME OwnInv, BookInv, NEW f, f \in clients, evictClient(f),
         UNCHANGED <<cpc, last>>
  PROVE  (\E k \in Conn : Leaving(k)') \/ apc \in Holding \ {"list"}
<1>1. f \in Fd /\ owner[f] # None /\ owner[f] \in Conn
  BY DEF BookInv, Listed, OwnInv, PlaceTypes
<1>2. CASE cpc[owner[f]] \in Served
  <2>1. owner[f] \in shut'
    BY <1>1 DEF evictClient
  <2>2. cfd[owner[f]] = f
    BY <1>1, <1>2 DEF OwnInv, Serves, Owned
  <2>3. cpc[owner[f]] # "close"
    BY <1>1, <2>2 DEF BookInv, Listed
  <2> QED BY <1>1, <1>2, <2>1, <2>3 DEF Served, Leaving
<1>3. CASE apc \in Holding /\ f = afd
  BY <1>3 DEF BookInv, Listed
<1> QED BY <1>1, <1>2, <1>3 DEF OwnInv, Owned

(* RunWatched is inductive, relative to the other invariants.              *)
LEMMA WatchHolds ==
  /\ OwnInv /\ BookInv /\ ReadersListed /\ RestTypes /\ RunWatched
  /\ [Next]_vars
  => RunWatched'
<1> SUFFICES ASSUME OwnInv, BookInv, ReadersListed, RestTypes, RunWatched,
                    [Next]_vars
             PROVE  RunWatched'
  OBVIOUS
<1>1. CASE UNCHANGED <<cpc, last, shut, apc, gpc, gracePending, clients, run,
                       quit, abandoned>>
  BY <1>1 DEF RunWatched, AtWork, Leaving
<1>2. ASSUME NEW k \in Conn, Handle(k) PROVE RunWatched'
  <2>1. /\ cpc[k] = "read" /\ UNCHANGED <<clients, cfd, shut, gpc, quit>>
        /\ cpc' = [cpc EXCEPT ![k] = IF quit THEN "drop" ELSE "read"]
    BY <1>2 DEF Handle, books, peers, grace, stopper
  <2>2. clients = {} /\ ~quit => k \in shut /\ cpc'[k] = "read"
    BY <2>1 DEF ReadersListed, OwnInv, PlaceTypes
  <2> QED BY <2>1, <2>2 DEF RunWatched, AtWork, Leaving
<1>3. ASSUME NEW k \in Conn, ReadEnds(k) PROVE RunWatched'
  <2>1. /\ cpc' = [cpc EXCEPT ![k] = "drop"] /\ UNCHANGED <<gpc, quit>>
    BY <1>3 DEF ReadEnds, grace, stopper
  <2>2. Leaving(k)'
    BY <2>1 DEF Leaving, OwnInv, PlaceTypes
  <2> QED BY <2>1, <2>2 DEF RunWatched, AtWork
<1>4. ASSUME NEW k \in Conn, Drop(k) PROVE RunWatched'
  <2>1. /\ cpc' = [cpc EXCEPT ![k] = "close"] /\ UNCHANGED <<gpc, quit>>
        /\ last' = [last EXCEPT ![k] = clients' = {}]
    BY <1>4 DEF Drop, grace, stopper
  <2>2. clients' = {} => last'[k] = TRUE
    BY <2>1, Zenon DEF RestTypes
  <2>3. cpc'[k] = "close"
    BY <2>1 DEF OwnInv, PlaceTypes
  <2>4. clients' = {} => Leaving(k)'
    BY <2>2, <2>3 DEF Leaving
  <2> QED BY <2>1, <2>4 DEF RunWatched, AtWork
<1>5. ASSUME NEW k \in Conn, Close(k) PROVE RunWatched'
  <2>1. /\ cpc[k] = "close" /\ cpc' = [cpc EXCEPT ![k] = "decide"]
        /\ shut' = shut \ {owner[cfd[k]]}
        /\ UNCHANGED <<last, apc, gpc, gracePending, clients, run, quit, abandoned>>
    BY <1>5 DEF Close, close, books, accept, grace, stopper
  <2>2. owner[cfd[k]] = k
    BY <2>1 DEF OwnInv, Serves, Served
  <2>3. \A j \in Conn : Leaving(j) => Leaving(j)'
    BY <2>1, <2>2 DEF Leaving, OwnInv, PlaceTypes
  <2> QED BY <2>1, <2>3 DEF RunWatched, AtWork
<1>6. ASSUME NEW k \in Conn, Decide(k) PROVE RunWatched'
  <2>1. /\ cpc[k] = "decide" /\ cpc' = [cpc EXCEPT ![k] = "gone"]
        /\ UNCHANGED <<shut, apc, gpc, clients, quit, abandoned>>
    BY <1>6 DEF Decide, books, peers, accept, stopper
  <2>2. CASE ~last[k]
    <3>1. /\ last' = [last EXCEPT ![k] = FALSE]
          /\ UNCHANGED <<gracePending, run>>
      BY <1>6, <2>2 DEF Decide
    <3>2. \A j \in Conn : Leaving(j) => Leaving(j)'
      BY <2>1, <2>2, <3>1 DEF Leaving, OwnInv, PlaceTypes
    <3> QED BY <2>1, <3>1, <3>2 DEF RunWatched, AtWork
  <2>3. CASE last[k] /\ ~quit
    <3>1. gracePending' = TRUE \/ run' = FALSE
      BY <1>6, <2>3, Zenon DEF Decide, beginReconnectGrace
    <3> QED BY <2>1, <2>3, <3>1 DEF RunWatched, AtWork
  <2>4. CASE quit
    BY <2>1, <2>4 DEF RunWatched
  <2> QED BY <2>2, <2>3, <2>4
<1>7. ASSUME List PROVE RunWatched'
  <2>1. CASE apc' = "cancel"
    BY <1>7, <2>1 DEF List, RunWatched, AtWork, Holding, grace, stopper
  <2>2. CASE apc' # "cancel"
    <3>1. /\ apc = "list" /\ shut' = shut \ {owner[afd]}
          /\ UNCHANGED <<cpc, last, gpc, gracePending, clients, run, quit,
                         abandoned>>
      BY <1>7, <2>2 DEF List, close, client, grace, stopper
    <3>2. cpc[owner[afd]] = "none"
      BY <3>1 DEF OwnInv, Serves, Holding
    <3>3. \A j \in Conn : Leaving(j) => Leaving(j)'
      BY <3>1, <3>2 DEF Leaving
    <3> QED BY <3>1, <3>3 DEF RunWatched, AtWork, Holding
  <2> QED BY <2>1, <2>2
<1>8. ASSUME EvictGreeted PROVE RunWatched'
  BY <1>8 DEF EvictGreeted, RunWatched, AtWork, Holding, grace, stopper
<1>9. ASSUME EvictDeaf PROVE RunWatched'
  <2>1. /\ evictClient(tfd)
        /\ UNCHANGED <<cpc, last, apc, gpc, gracePending, run, quit, abandoned>>
    BY <1>9 DEF EvictDeaf, accept, client, grace, stopper
  <2>2. CASE tfd \in clients
    BY <2>1, <2>2, EvictedLeaves DEF RunWatched, AtWork
  <2>3. CASE tfd \notin clients
    BY <2>1, <2>3 DEF evictClient, RunWatched, AtWork, Leaving
  <2> QED BY <2>2, <2>3
<1>10. ASSUME NEW f \in Fd, Accept(f) PROVE RunWatched'
  BY <1>10 DEF Accept, RunWatched, AtWork, Leaving, Holding, books, client,
     grace, stopper
<1>11. ASSUME CancelGrace \/ Greet PROVE RunWatched'
  BY <1>11 DEF CancelGrace, Greet, RunWatched, AtWork, Holding, grace, stopper
<1>12. ASSUME AcceptEnds PROVE RunWatched'
  BY <1>12, Zenon DEF AcceptEnds, RunWatched, grace, stopper
<1>13. ASSUME ForgetGreeted PROVE RunWatched'
  BY <1>13 DEF ForgetGreeted, RunWatched, AtWork, Leaving, Holding, peers,
     client, grace, stopper
<1>14. ASSUME Alive PROVE RunWatched'
  <2>1. UNCHANGED <<clients, gpc, quit>>
    BY <1>14 DEF Alive, books, grace, stopper
  <2>2. CASE afd \in clients
    BY <2>1, <2>2 DEF RunWatched
  <2>3. CASE afd \notin clients
    BY <1>14, <2>1, <2>3 DEF Alive, RunWatched, AtWork, Holding
  <2> QED BY <2>2, <2>3
<1>15. ASSUME CloseGreeted PROVE RunWatched'
  BY <1>15, Zenon DEF CloseGreeted, RunWatched, grace, stopper
<1>16. ASSUME GraceStarts \/ GraceReplaced \/ GraceExpires \/ HasClient
      PROVE  RunWatched'
  BY <1>16 DEF GraceStarts, GraceReplaced, GraceExpires, HasClient, RunWatched,
     AtWork, Leaving, books, peers, accept, client, stopper
<1>17. ASSUME GraceStops PROVE RunWatched'
  BY <1>17, Zenon DEF GraceStops, RunWatched, stopper
<1>18. ASSUME GraceEnds \/ Quit PROVE RunWatched'
  BY <1>18 DEF GraceEnds, Quit, RunWatched, stopper, grace
<1>19. ASSUME ShutDown PROVE RunWatched'
  BY <1>19 DEF ShutDown, RunWatched, BookInv, grace, stopper
<1> QED
  BY <1>1, <1>2, <1>3, <1>4, <1>5, <1>6, <1>7, <1>8, <1>9, <1>10, <1>11,
     <1>12, <1>13, <1>14, <1>15, <1>16, <1>17, <1>18, <1>19
     DEF Next, Peers, Leave, Freeze, Thaw, threadMain, serveClient,
         telemetryLoop, Broadcast, SendTo, graceLoop, stop, Swap, Joined, vars, peers, books, accept, client,
         sender, grace, stopper

(* For any number of connections, the safe half of OrphanRunEnds: a run    *)
(* never goes on with nobody connected and nobody at work who ends it,     *)
(* unless a connection was torn before it had a thread (abandoned).        *)
THEOREM RunIsWatched ==
  Spec => [](run /\ clients = {} /\ ~quit /\ ~abandoned => AtWork)
<1>1. Init => RunWatched /\ ReadersListed /\ RestTypes
  BY RestInit DEF Init, RunWatched, ReadersListed
<1>2. RunWatched => (run /\ clients = {} /\ ~quit /\ ~abandoned => AtWork)
  BY DEF RunWatched
<1> QED BY <1>1, <1>2, OwnAlways, BookAlways, ReadersHold, RestTypesHold,
           WatchHolds, PTL DEF Spec

===============================================================================
