---------------------------- MODULE Descriptors ----------------------------
(***************************************************************************)
(* Who owns which file descriptor: the handle classes (TcpSocket,          *)
(* TcpListener, UdpSocket, File, PipeRead, PipeWrite), their moves and     *)
(* their factories, and the coroutines that open a descriptor and keep it  *)
(* in their frame across a suspension (TcpSocket::connect, connect_from    *)
(* and TcpListener::accept).                                               *)
(*                                                                         *)
(* A handle is one object of user code.  A coroutine stands for its frame  *)
(* and its Fut: what it owns is the socket parameter in the frame or the   *)
(* socket in the result.  The kernel is external: it gives the lowest free *)
(* number, so a number that is closed twice may be somebody else's.        *)
(***************************************************************************)
EXTENDS Integers, FiniteSetsExt

CONSTANTS
  Handles,    \* objects of the handle classes
  Coros,      \* coroutines that connect or accept
  MaxFd,      \* the table has descriptors 0 .. MaxFd
  MaxBacklog  \* connections the kernel queues for the listener

ASSUME DescriptorsAssumption ==
  Handles \cap Coros = {} /\ MaxFd \in Nat /\ MaxBacklog \in Nat \ {0}

VARIABLES
  open,     \* descriptors open in the process
  own,      \* m_fd of every object and of every socket in a frame
  st,       \* what each coroutine is doing
  backlog,  \* connections not accepted yet
  unbound   \* descriptors that connect_from could not bind

fdVars == <<open, own, st, backlog, unbound>>

NoFd == -1
Fds == 0 .. MaxFd
Owners == Handles \cup Coros

(* "connecting", "accepting": in PollEvent; "woken": resumed in accept,     *)
(* about to try again; "ready", "failed": the future has a result.          *)
States == {"idle", "connecting", "accepting", "woken", "ready", "failed"}

FdInit ==
  /\ open = {}
  /\ own = [o \in Owners |-> NoFd]
  /\ st = [c \in Coros |-> "idle"]
  /\ backlog = 0
  /\ unbound = {}

Free == Fds \ open
Lowest == Min(Free)

(* Mutant: the moved-from object keeps the descriptor as well. *)
CopyInto(h, g) == own' = [own EXCEPT ![h] = own[g]]

(* SetDefaultOnMove: the moved-from object is left without a descriptor. *)
MoveInto(h, g) == own' = [own EXCEPT ![h] = own[g], ![g] = NoFd]

(* close() forgets the number it has closed. *)
Forget(o) == own' = [own EXCEPT ![o] = NoFd]

-----------------------------------------------------------------------------
(* Handles.                                                                 *)

(* A factory makes an object that is then move-assigned to h, whose old     *)
(* descriptor is closed after the new one is open.                          *)
Assign(h, fd) ==
  /\ own' = [own EXCEPT ![h] = fd]
  /\ open' = (open \cup {fd}) \ {own[h]}

(* File::open, UdpSocket::unbound and bound, TcpListener::make.  A bind or  *)
(* listen that fails destroys the half-made object and leaves all as it was. *)
Make(h) ==
  /\ Free # {}
  /\ Assign(h, Lowest)
  /\ UNCHANGED <<st, backlog, unbound>>

(* PipePair::make: two descriptors from one call, for two empty handles. *)
MakePipe(h, g) ==
  /\ h # g /\ own[h] = NoFd /\ own[g] = NoFd
  /\ Cardinality(Free) >= 2
  /\ LET second == Min(Free \ {Lowest}) IN
     /\ own' = [own EXCEPT ![h] = Lowest, ![g] = second]
     /\ open' = open \cup {Lowest, second}
  /\ UNCHANGED <<st, backlog, unbound>>

(* operator=(T &&): destroy, then construct from the other. *)
Move(h, g) ==
  /\ h # g
  /\ MoveInto(h, g)
  /\ open' = open \ {own[h]}
  /\ UNCHANGED <<st, backlog, unbound>>

(* close() and the destructor; an object without a descriptor is left alone. *)
Close(h) ==
  /\ own[h] # NoFd
  /\ open' = open \ {own[h]}
  /\ Forget(h)
  /\ UNCHANGED <<st, backlog, unbound>>

-----------------------------------------------------------------------------
(* Coroutines.                                                              *)

Ends(c, s) == st' = [st EXCEPT ![c] = s]

(* socket() or the first ::accept failed, or the frame could not be         *)
(* allocated and the socket parameter was destroyed with the call.          *)
SocketFails(c) ==
  /\ st[c] = "idle"
  /\ Ends(c, "failed")
  /\ UNCHANGED <<open, own, backlog, unbound>>

(* The socket goes into the frame of connect_impl, and stays there if       *)
(* ::connect fails at once: parameters live until the future is destroyed.  *)
Connect(c) ==
  /\ st[c] = "idle" /\ Free # {}
  /\ open' = open \cup {Lowest}
  /\ own' = [own EXCEPT ![c] = Lowest]
  /\ \E s \in {"connecting", "failed"} : Ends(c, s)
  /\ UNCHANGED <<backlog, unbound>>

(* connect_from returns on a failed bind before any object owns the number. *)
BindFails(c) ==
  /\ st[c] = "idle" /\ Free # {}
  /\ open' = open \cup {Lowest}
  /\ unbound' = unbound \cup {Lowest}
  /\ Ends(c, "failed")
  /\ UNCHANGED <<own, backlog>>

(* SO_ERROR after the wake-up; the socket is moved to the result, or stays  *)
(* in the frame of the failed coroutine.                                    *)
ConnectEnds(c) ==
  /\ st[c] = "connecting"
  /\ \E s \in {"ready", "failed"} : Ends(c, s)
  /\ UNCHANGED <<open, own, backlog, unbound>>

(* try_accept with a connection there.  AcceptResult owns the socket before *)
(* fcntl can fail, so a failure closes it.                                  *)
Accepted(c) ==
  /\ backlog > 0 /\ Free # {}
  /\ backlog' = backlog - 1
  /\ \/ /\ open' = open \cup {Lowest}
        /\ own' = [own EXCEPT ![c] = Lowest]
        /\ Ends(c, "ready")
     \/ /\ Ends(c, "failed")
        /\ UNCHANGED <<open, own>>
  /\ UNCHANGED unbound

(* accept: the first try, and PollEvent when it would block. *)
Accept(c) ==
  /\ st[c] = "idle"
  /\ \/ Accepted(c)
     \/ /\ backlog = 0
        /\ Ends(c, "accepting")
        /\ UNCHANGED <<open, own, backlog, unbound>>

AcceptWakes(c) ==
  /\ st[c] = "accepting" /\ backlog > 0
  /\ Ends(c, "woken")
  /\ UNCHANGED <<open, own, backlog, unbound>>

(* The second try is the last: it may find that another coroutine has taken *)
(* the connection, or that there is no free descriptor.                     *)
AcceptAgain(c) ==
  /\ st[c] = "woken"
  /\ \/ Accepted(c)
     \/ /\ backlog = 0 \/ Free = {}
        /\ Ends(c, "failed")
        /\ UNCHANGED <<open, own, backlog, unbound>>

Incoming ==
  /\ backlog < MaxBacklog
  /\ backlog' = backlog + 1
  /\ UNCHANGED <<open, own, st, unbound>>

(* The awaiting code moves the socket out of the result into a handle and   *)
(* destroys the future.                                                     *)
TakeResult(c, h) ==
  /\ st[c] = "ready"
  /\ MoveInto(h, c)
  /\ open' = open \ {own[h]}
  /\ Ends(c, "idle")
  /\ UNCHANGED <<backlog, unbound>>

(* Mutant: the frame goes without its socket being closed. *)
DropWithoutClosing(c) ==
  /\ st[c] # "idle"
  /\ Forget(c)
  /\ Ends(c, "idle")
  /\ UNCHANGED <<open, backlog, unbound>>

(* The future is dropped, suspended or not: frame and result are destroyed. *)
Drop(c) ==
  /\ st[c] # "idle"
  /\ open' = open \ {own[c]}
  /\ Forget(c)
  /\ Ends(c, "idle")
  /\ UNCHANGED <<backlog, unbound>>

FdNext ==
  \/ \E h \in Handles : Make(h) \/ Close(h)
  \/ \E h, g \in Handles : MakePipe(h, g) \/ Move(h, g)
  \/ \E c \in Coros :
       \/ SocketFails(c) \/ Connect(c) \/ BindFails(c) \/ ConnectEnds(c)
       \/ Accept(c) \/ AcceptWakes(c) \/ AcceptAgain(c) \/ Drop(c)
       \/ \E h \in Handles : TakeResult(c, h)
  \/ Incoming

FdSpec == FdInit /\ [][FdNext]_fdVars

-----------------------------------------------------------------------------
(* Descriptors are numbers of the table, and idle coroutines own none. *)
FdTypeOK ==
  /\ open \subseteq Fds
  /\ own \in [Owners -> Fds \cup {NoFd}]
  /\ st \in [Coros -> States]
  /\ backlog \in 0 .. MaxBacklog
  /\ unbound \subseteq Fds
  /\ \A c \in Coros : st[c] \in {"idle", "accepting", "woken"} => own[c] = NoFd
  /\ \A c \in Coros : st[c] \in {"connecting", "ready"} => own[c] # NoFd

(* A descriptor has one owner, and an owner's descriptor is open: nobody    *)
(* closes a number twice, nor one that has been handed to somebody else.    *)
SoleOwner ==
  /\ FdTypeOK
  /\ \A o \in Owners : own[o] # NoFd => own[o] \in open \ unbound
  /\ \A o, p \in Owners : o # p /\ own[o] # NoFd => own[o] # own[p]

(* Every open descriptor will be closed by its owner, whatever failed and   *)
(* whatever was dropped while suspended, except those that connect_from     *)
(* could not bind: nothing owns these.                                      *)
NothingElseLeaks == open \subseteq {own[o] : o \in Owners} \cup unbound

=============================================================================
