---------------------------- MODULE SocketServer ----------------------------
(***************************************************************************)
(* socket-communication/: a kernel thread that accepts one TCP connection, *)
(* receives one message, runs the file editor and waits until it is closed *)
(* (socket_mod.c), and a program that connects, sends and closes (user.c). *)
(* The thread serves a single client: others stay in the backlog.          *)
(***************************************************************************)
EXTENDS ModuleLife, Naturals, Sequences

CONSTANTS
  Clients,     \* instances of the user program
  NoClient,
  BacklogMax   \* connections that wait for accept(); later ones are refused

ASSUME ServerAssumption ==
  /\ NoClient \notin Clients
  /\ BacklogMax \in Nat \ {0}

VARIABLES
  server,    \* where the thread is: see ServerPCs
  listening, \* does server_socket listen?
  backlog,   \* connections nobody has accepted
  conn,      \* new_socket
  app,       \* does the editor run?
  client,    \* where each client is: see ClientPCs
  data,      \* has it sent its message?
  read       \* history: has the thread received it?

serverVars == <<server, listening, backlog, conn, app>>
clientVars == <<client, data>>
vars == <<module, faults, serverVars, clientVars, read>>

ServerPCs == {"none", "created", "accept", "recv", "launch", "wait", "release", "dead"}
ClientPCs == {"start", "connected", "closed"}

(* Every variable has a value of its type; the editor runs only while the  *)
(* thread waits for it.                                                    *)
TypeOK ==
  /\ module \in Modules
  /\ faults \subseteq Faults
  /\ server \in ServerPCs
  /\ listening \in BOOLEAN
  /\ backlog \in Seq(Clients)
  /\ Len(backlog) <= BacklogMax
  /\ conn \in Clients \union {NoClient}
  /\ app \in BOOLEAN
  /\ client \in [Clients -> ClientPCs]
  /\ data \in [Clients -> BOOLEAN]
  /\ read \in [Clients -> BOOLEAN]
  /\ app => server = "wait"

Init ==
  /\ module = "absent"
  /\ faults = {}
  /\ server = "none"
  /\ listening = FALSE
  /\ backlog = <<>>
  /\ conn = NoClient
  /\ app = FALSE
  /\ client = [c \in Clients |-> "start"]
  /\ data = [c \in Clients |-> FALSE]
  /\ read = [c \in Clients |-> FALSE]

-----------------------------------------------------------------------------
(* insmod and rmmod.                                                       *)

(* Any of its four calls may fail; what was created is released then.      *)
server_init ==
  /\ module = "absent"
  /\ module' = "loaded"
  /\ server' = "created"
  /\ listening' = TRUE
  /\ UNCHANGED <<faults, backlog, conn, app, clientVars, read>>

(* Mutant: kthread_stop() is called after the socket is released.          *)
server_exit_releases ==
  /\ module = "loaded"
  /\ server # "dead"
  /\ module' = "exiting"
  /\ listening' = FALSE
  /\ UNCHANGED <<faults, server, backlog, conn, app, clientVars, read>>

(* kthread_stop() on a thread that is alive.                               *)
server_exit ==
  /\ module = "loaded"
  /\ server # "dead"
  /\ module' = "exiting"
  /\ UNCHANGED <<faults, serverVars, clientVars, read>>

(* What shutting down and releasing the listening socket does.             *)
ClosesListener ==
  /\ listening' = FALSE
  /\ backlog' = <<>>
  /\ UNCHANGED <<server, conn, app, clientVars, read>>

(* kthread_stop() on the freed task structure of a thread that is gone: it *)
(* may still look like one, or the call may crash.                         *)
StopDeadServer ==
  /\ module = "loaded"
  /\ server = "dead"
  /\ faults' = faults \union {"deadThread"}
  /\ \/ module' = "gone" /\ ClosesListener
     \/ module' = "wedged" /\ UNCHANGED <<serverVars, clientVars, read>>

ServerStopped ==
  /\ module = "exiting"
  /\ server = "dead"
  /\ module' = "gone"
  /\ ClosesListener
  /\ UNCHANGED faults

-----------------------------------------------------------------------------
(* The thread. It never asks whether it should stop.                       *)

ServerGoes(from, to) ==
  /\ server = from
  /\ server' = to

(* A thread asked to stop before it first runs never calls its function.   *)
NeverStarted ==
  /\ module = "exiting"
  /\ ServerGoes("created", "dead")
  /\ UNCHANGED <<module, faults, listening, backlog, conn, app, clientVars, read>>

Starts ==
  /\ ServerGoes("created", "accept")
  /\ UNCHANGED <<module, faults, listening, backlog, conn, app, clientVars, read>>

Accept ==
  /\ backlog # <<>>
  /\ ServerGoes("accept", "recv")
  /\ conn' = Head(backlog)
  /\ backlog' = Tail(backlog)
  /\ UNCHANGED <<module, faults, listening, app, clientVars, read>>

(* There is a message.                                                     *)
Receive ==
  /\ ServerGoes("recv", "launch")
  /\ data[conn]
  /\ read' = [read EXCEPT ![conn] = TRUE]
  /\ UNCHANGED <<module, faults, listening, backlog, conn, app, clientVars>>

(* Mutant: the end of the stream counts as a message.                      *)
ReceiveEndAsMessage ==
  /\ ServerGoes("recv", "launch")
  /\ client[conn] = "closed"
  /\ UNCHANGED <<module, faults, listening, backlog, conn, app, clientVars, read>>

(* Mutant: the thread asks again when recvmsg returns 0.                   *)
ReceiveRetries ==
  /\ ServerGoes("recv", "recv")
  /\ client[conn] = "closed"
  /\ ~data[conn]
  /\ UNCHANGED <<module, faults, listening, backlog, conn, app, clientVars, read>>

(* The client has gone without one: recvmsg returns 0, or an error.        *)
ReceiveNothing ==
  /\ ServerGoes("recv", "release")
  /\ client[conn] = "closed"
  /\ ~data[conn]
  /\ UNCHANGED <<module, faults, listening, backlog, conn, app, clientVars, read>>

(* call_usermodehelper(UMH_WAIT_PROC): it may fail, or run the editor.     *)
Launch ==
  /\ \/ ServerGoes("launch", "wait") /\ app' = TRUE
     \/ ServerGoes("launch", "release") /\ UNCHANGED app
  /\ UNCHANGED <<module, faults, listening, backlog, conn, clientVars, read>>

EditorCloses ==
  /\ app
  /\ app' = FALSE
  /\ ServerGoes("wait", "release")
  /\ UNCHANGED <<module, faults, listening, backlog, conn, clientVars, read>>

Release ==
  /\ ServerGoes("release", "dead")
  /\ conn' = NoClient
  /\ UNCHANGED <<module, faults, listening, backlog, app, clientVars, read>>

Server ==
  \/ NeverStarted \/ Starts \/ Accept \/ Receive \/ ReceiveNothing
  \/ Launch \/ Release

-----------------------------------------------------------------------------
(* The user program. Without a listener connect() fails, and it ends.      *)

Connect(c) ==
  /\ listening
  /\ client[c] = "start"
  /\ Len(backlog) < BacklogMax
  /\ client' = [client EXCEPT ![c] = "connected"]
  /\ backlog' = Append(backlog, c)
  /\ UNCHANGED <<module, faults, server, listening, conn, app, data, read>>

Send(c) ==
  /\ client[c] = "connected"
  /\ ~data[c]
  /\ data' = [data EXCEPT ![c] = TRUE]
  /\ UNCHANGED <<module, faults, serverVars, client, read>>

(* close(), or the program is killed.                                      *)
Close(c) ==
  /\ client[c] = "connected"
  /\ client' = [client EXCEPT ![c] = "closed"]
  /\ UNCHANGED <<module, faults, serverVars, data, read>>

Next ==
  \/ server_init \/ server_exit \/ StopDeadServer \/ ServerStopped
  \/ Server \/ EditorCloses
  \/ \E c \in Clients : Connect(c) \/ Send(c) \/ Close(c)

Spec == Init /\ [][Next]_vars

(* The thread runs when it can, and rmmod goes on when it is over. Nothing *)
(* is assumed of the clients or of the editor's user.                      *)
FairSpec == Spec /\ WF_vars(Server) /\ WF_vars(ServerStopped)

-----------------------------------------------------------------------------
WaitsForUser ==
  \/ server = "accept" /\ backlog = <<>>
  \/ server = "recv" /\ client[conn] = "connected"
  \/ app

(* kthread_stop() wakes nobody who waits for a connection, a message or an *)
(* editor (socket_mod.c:99): rmmod may block for ever, but then on a user, *)
(* and never on connections that are queued or on the thread itself.       *)
OnlyUsersBlock ==
  <>[](module = "exiting") => <>[]WaitsForUser

(* The thread never waits on a socket that has been released, nor runs     *)
(* code that has been unloaded.                                            *)
ListenerOutlivesServer ==
  server \in {"created", "accept", "recv", "launch", "wait", "release"}
    => listening /\ module \in {"loaded", "exiting"}

(* The editor is run for a message only, and for one client at most in the *)
(* life of the module.                                                     *)
LaunchedForOne ==
  /\ app => read[conn]
  /\ \A c, d \in Clients : read[c] /\ read[d] => c = d
=============================================================================
