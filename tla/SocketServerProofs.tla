------------------------- MODULE SocketServerProofs -------------------------
(***************************************************************************)
(* The server of socket-communication/, for any number of clients and any  *)
(* backlog: it owns its socket and its code as long as it runs, and it     *)
(* runs the editor for one message only.                                   *)
(***************************************************************************)
EXTENDS SocketServer, TLAPS

(* There is no thread yet when there is no module; one that has accepted a *)
(* connection holds it.                                                    *)
Connected ==
  /\ module = "absent" => server = "none"
  /\ server \in {"recv", "launch", "wait", "release"} => conn \in Clients

(* Before the thread receives, nobody has been read; after, its client is  *)
(* the one.                                                                *)
ReadOnce ==
  /\ server \in {"none", "created", "accept", "recv"} => \A c \in Clients : ~read[c]
  /\ server \in {"launch", "wait"} =>
       read[conn] /\ \A c \in Clients : read[c] => c = conn
  /\ \A c, d \in Clients : read[c] /\ read[d] => c = d

ServerInv == TypeOK /\ Connected /\ ListenerOutlivesServer /\ ReadOnce

-----------------------------------------------------------------------------
(* The connection at the head of the backlog leaves it.                    *)
LEMMA HeadLeaves ==
  ASSUME NEW s \in Seq(Clients), s # <<>>
  PROVE  Head(s) \in Clients /\ Tail(s) \in Seq(Clients) /\ Len(Tail(s)) <= Len(s)
<1>1. Len(s) \in Nat /\ Len(s) > 0
  OBVIOUS
<1>2. Head(s) \in Clients /\ Tail(s) \in Seq(Clients) /\ Len(Tail(s)) = Len(s) - 1
  OBVIOUS
<1> QED
  BY <1>1, <1>2

(* The editor runs only while the thread waits for it.                     *)
LEMMA EditorAwaited ==
  ASSUME app => server = "wait", Connected, [Next]_vars
  PROVE  app' => server' = "wait"
<1> USE DEF ServerGoes
<1>1. CASE Launch
  BY <1>1, Zenon DEF Launch
<1>2. CASE EditorCloses
  BY <1>2, Zenon DEF EditorCloses
<1>3. CASE ~Launch /\ ~EditorCloses
  <2>1. app' = app
    BY <1>3, Zenon DEF Next, Server, server_init, server_exit, StopDeadServer, ServerStopped,
         ClosesListener, NeverStarted, Starts, Accept, Receive, ReceiveNothing,
         Release, Connect, Send, Close, vars, serverVars
  <2>2. server' = server \/ server # "wait"
    <3>1. CASE server_init
      BY <3>1 DEF server_init, Connected
    <3> QED
      BY <1>3, <3>1 DEF Next, Server, server_exit, StopDeadServer, ServerStopped,
         ClosesListener, NeverStarted, Starts, Accept, Receive, ReceiveNothing,
         Release, Connect, Send, Close, vars, serverVars
  <2> QED
    BY <2>1, <2>2, Zenon
<1> QED
  BY <1>1, <1>2, <1>3, Zenon

LEMMA Typing ==
  ASSUME TypeOK, Connected, [Next]_vars
  PROVE  TypeOK' /\ Connected'
<1> USE DEF TypeOK, ServerGoes
<1>1. listening' \in BOOLEAN /\ app' \in BOOLEAN
  BY Zenon DEF Next, Server, server_init, server_exit, StopDeadServer, ServerStopped,
       ClosesListener, NeverStarted, Starts, Accept, Receive, ReceiveNothing, Launch,
       EditorCloses, Release, Connect, Send, Close, vars, serverVars
<1>2. data' \in [Clients -> BOOLEAN] /\ read' \in [Clients -> BOOLEAN]
  <2>1. \/ data' = data
        \/ \E c \in Clients : data' = [data EXCEPT ![c] = TRUE]
    BY DEF Next, Server, server_init, server_exit, StopDeadServer, ServerStopped,
         ClosesListener, NeverStarted, Starts, Accept, Receive, ReceiveNothing, Launch,
         EditorCloses, Release, Connect, Send, Close, vars, clientVars
  <2>2. read' = read \/ read' = [read EXCEPT ![conn] = TRUE]
    BY DEF Next, Server, server_init, server_exit, StopDeadServer, ServerStopped,
         ClosesListener, NeverStarted, Starts, Accept, Receive, ReceiveNothing, Launch,
         EditorCloses, Release, Connect, Send, Close, vars
  <2>3. data' \in [Clients -> BOOLEAN]
    BY <2>1
  <2>4. read' \in [Clients -> BOOLEAN]
    BY <2>2
  <2> QED
    BY <2>3, <2>4
<1>3. /\ module' \in Modules /\ faults' \subseteq Faults /\ server' \in ServerPCs
      /\ client' \in [Clients -> ClientPCs] /\ (app' => server' = "wait")
  <2>1. module' \in Modules /\ faults' \subseteq Faults
    BY DEF Next, Server, server_init, server_exit, StopDeadServer, ServerStopped,
         ClosesListener, NeverStarted, Starts, Accept, Receive, ReceiveNothing, Launch,
         EditorCloses, Release, Connect, Send, Close, vars, Modules, Faults
  <2>2. server' \in ServerPCs
    BY DEF Next, Server, server_init, server_exit, StopDeadServer, ServerStopped,
         ClosesListener, NeverStarted, Starts, Accept, Receive, ReceiveNothing, Launch,
         EditorCloses, Release, Connect, Send, Close, vars, serverVars, ServerPCs
  <2>3. client' \in [Clients -> ClientPCs]
    BY DEF Next, Server, server_init, server_exit, StopDeadServer, ServerStopped,
         ClosesListener, NeverStarted, Starts, Accept, Receive, ReceiveNothing, Launch,
         EditorCloses, Release, Connect, Send, Close, vars, clientVars, ClientPCs
  <2> QED
    BY <2>1, <2>2, <2>3, EditorAwaited
<1>4. backlog' \in Seq(Clients) /\ Len(backlog') <= BacklogMax
  <2>1. CASE Accept
    BY <2>1, HeadLeaves, ServerAssumption DEF Accept
  <2>2. CASE ClosesListener
    BY <2>2, ServerAssumption DEF ClosesListener
  <2>3. ASSUME NEW c \in Clients, Connect(c)
        PROVE  backlog' \in Seq(Clients) /\ Len(backlog') <= BacklogMax
    BY <2>3, ServerAssumption DEF Connect
  <2>4. CASE UNCHANGED backlog
    BY <2>4
  <2> QED
    BY <2>1, <2>2, <2>3, <2>4
       DEF Next, Server, server_init, server_exit, StopDeadServer, ServerStopped,
           NeverStarted, Starts, Receive, ReceiveNothing, Launch, EditorCloses, Release,
           Send, Close, vars, serverVars
<1>5. conn' \in Clients \union {NoClient} /\ Connected'
  <2>1. CASE Accept
    BY <2>1, HeadLeaves DEF Accept, Connected
  <2>2. CASE ~Accept
    BY <2>2 DEF Connected, Next, Server, server_init, server_exit, StopDeadServer,
           ServerStopped, ClosesListener, NeverStarted, Starts, Receive, ReceiveNothing,
           Launch, EditorCloses, Release, Connect, Send, Close, vars, serverVars
  <2> QED
    BY <2>1, <2>2
<1> QED
  BY <1>1, <1>2, <1>3, <1>4, <1>5

LEMMA Listening ==
  ASSUME ListenerOutlivesServer, [Next]_vars
  PROVE  ListenerOutlivesServer'
BY DEF ListenerOutlivesServer, Next, Server, ServerGoes, server_init, server_exit,
       StopDeadServer, ServerStopped, ClosesListener, NeverStarted, Starts, Accept, Receive,
       ReceiveNothing, Launch, EditorCloses, Release, Connect, Send, Close, vars, serverVars

LEMMA Reading ==
  ASSUME TypeOK, Connected, ReadOnce, [Next]_vars
  PROVE  ReadOnce'
<1> USE DEF ReadOnce, Connected, ServerGoes
<1>1. CASE Receive
  <2>1. /\ conn' = conn /\ conn \in Clients /\ server' = "launch" /\ module' = module
        /\ \A c \in Clients : read'[c] <=> c = conn
    BY <1>1 DEF Receive, TypeOK, Connected
  <2> QED
    BY <1>1, <2>1 DEF Receive
<1>2. CASE server_init \/ server_exit \/ StopDeadServer \/ ServerStopped
  BY <1>2 DEF server_init, server_exit, StopDeadServer, ServerStopped, ClosesListener, serverVars
<1>3. CASE NeverStarted \/ Starts \/ Accept \/ ReceiveNothing \/ Launch \/ Release
           \/ EditorCloses
  BY <1>3 DEF NeverStarted, Starts, Accept, ReceiveNothing, Launch, Release, EditorCloses
<1>4. ASSUME NEW c \in Clients, Connect(c) \/ Send(c) \/ Close(c)
      PROVE  ReadOnce'
  BY <1>4 DEF Connect, Send, Close, serverVars
<1>5. CASE UNCHANGED vars
  BY <1>5 DEF vars, serverVars
<1> QED
  BY <1>1, <1>2, <1>3, <1>4, <1>5 DEF Next, Server

LEMMA ServerInvariance == Spec => []ServerInv
<1>1. Init => ServerInv
  <2> SUFFICES ASSUME Init
               PROVE  ServerInv
    OBVIOUS
  <2>1. backlog \in Seq(Clients) /\ Len(backlog) <= BacklogMax
    BY ServerAssumption DEF Init
  <2> QED
    BY <2>1 DEF Init, ServerInv, TypeOK, Connected, ListenerOutlivesServer, ReadOnce,
                Modules, Faults, ServerPCs, ClientPCs
<1>2. ServerInv /\ [Next]_vars => ServerInv'
  BY Typing, Listening, Reading DEF ServerInv
<1> QED
  BY <1>1, <1>2, PTL DEF Spec

(* As long as the thread runs its socket listens and its code is loaded:   *)
(* the exit handler waits for it before it releases either.                *)
THEOREM SocketIsKept == Spec => []ListenerOutlivesServer
<1>1. ServerInv => ListenerOutlivesServer
  BY DEF ServerInv
<1> QED
  BY <1>1, ServerInvariance, PTL

(* Whoever connects, sends and closes when, the editor runs for a message  *)
(* that was received, and for one client in the life of the module.        *)
THEOREM OneClientServed == Spec => []LaunchedForOne
<1>1. ServerInv => LaunchedForOne
  BY DEF ServerInv, TypeOK, ReadOnce, LaunchedForOne
<1> QED
  BY <1>1, ServerInvariance, PTL
=============================================================================
