------------------------------ MODULE InetLink ------------------------------
(***************************************************************************)
(* The Posix link component (ac_inet_link): its message handler, which     *)
(* opens a socket and finds an interface for AC_INIT_CMD, sends an ARP     *)
(* request for AC_INET_SEND_ARP_CMD and closes the socket for              *)
(* AC_DEINIT_CMD, and the reader thread that AC_INIT_CMD creates, which    *)
(* nobody tells that the socket was closed.  The component may be removed  *)
(* and added again, as CompMgr.tla has it; a failure in AC_INIT_CMD stops  *)
(* the program.                                                            *)
(*                                                                         *)
(* External: the kernel.  A file descriptor is the lowest free number, a   *)
(* recvmsg goes on with the file it started with, interfaces come and go.  *)
(***************************************************************************)
EXTENDS Integers, Sequences, FiniteSets

CONSTANTS IfCount,      \* AC_ARRAY_COUNT(this->ifname)
          Fds,          \* 1 .. the highest descriptor
          MaxFiles,     \* bound: files opened, by the component and by others
          MaxMsgs,      \* bound: messages sent to the component
          MaxChanges    \* bound: changes of the interfaces, and signals

None == 0

InetLinkAssumption == IfCount \in Nat /\ Fds \subseteq Nat /\ MaxFiles \in Nat

Interfaces == 0 .. IfCount - 1
Readers == 1 .. MaxFiles    \* a reader has the number of its socket

VARIABLES
  lpc,      \* where the handler is
  up,       \* the interfaces that exist
  changes,
  files,    \* the file each descriptor stands for
  opened,   \* files opened so far
  closed,   \* history: the sockets AC_DEINIT_CMD closed
  this,     \* the component: [fd, idx, ifindex, mac, ip]
  msgs,     \* messages: [got |-> processed, returned |-> given back to their pool]
  reader,   \* where each reader is: "none", "call", the file it receives from, "ended"
  from,     \* history: the files each reader received from
  frames    \* history: the frames sent, and the file they went to

ilvars == <<lpc, up, changes, files, opened, closed, this, msgs, reader, from, frames>>

Init ==
  /\ lpc = "added"
  /\ up \in SUBSET Interfaces
  /\ changes = 0
  /\ files = [d \in Fds |-> None]
  /\ opened = 0
  /\ closed = {}
  /\ this = [fd |-> None, idx |-> 0, ifindex |-> None, mac |-> None, ip |-> None]
  /\ msgs = [got |-> 0, returned |-> 0]
  /\ reader = [r \in Readers |-> "none"]
  /\ from = [r \in Readers |-> {}]
  /\ frames = {}

-----------------------------------------------------------------------------
(* comp_ipv4_ll_process_msg.                                               *)

Handler(from1, to) == lpc = from1 /\ lpc' = to
Reading == UNCHANGED <<reader, from>>
FreeFds == {d \in Fds : files[d] = None}
Lowest(S) == CHOOSE d \in S : \A e \in S : d <= e
Got == msgs' = [msgs EXCEPT !.got = @ + 1]
Returned == msgs' = [msgs EXCEPT !.returned = @ + 1]
OpenFile(d) == opened < MaxFiles /\ opened' = opened + 1 /\ files' = [files EXCEPT ![d] = opened + 1]

\* AC_INIT_CMD: socket and setsockopt, one of which may fail.
InitCmd ==
  /\ Got
  /\ \/ /\ Handler("added", "index")
        /\ FreeFds # {}
        /\ OpenFile(Lowest(FreeFds))
        /\ this' = [this EXCEPT !.fd = Lowest(FreeFds), !.idx = 0]
     \/ Handler("added", "stopped") /\ UNCHANGED <<files, opened, this>>
  /\ UNCHANGED <<up, changes, closed, frames>> /\ Reading

\* get_ifindex, of one name after the other.
GetIfindex ==
  /\ IF this.idx \notin Interfaces THEN Handler("index", "stopped") /\ UNCHANGED this
     ELSE IF this.idx \in up
     THEN Handler("index", "mac") /\ this' = [this EXCEPT !.ifindex = this.idx]
     ELSE Handler("index", "index") /\ this' = [this EXCEPT !.idx = @ + 1]
  /\ UNCHANGED <<up, changes, files, opened, closed, msgs, frames>> /\ Reading

\* Mutant of NameToAsk: the first name, not the one that was found.
NameToAskFirst(t) == IF t.idx > 0 THEN 0 ELSE t.idx

NameToAsk(t) == t.idx

\* get_ethernet_mac_addr and get_ethernet_ipv4_addr.
GetMac ==
  /\ lpc = "mac"
  /\ IF NameToAsk(this) \in up
       THEN lpc' = "ip" /\ this' = [this EXCEPT !.mac = NameToAsk(this)]
       ELSE lpc' = "stopped" /\ UNCHANGED this
  /\ UNCHANGED <<up, changes, files, opened, closed, msgs, frames>> /\ Reading

GetIp ==
  /\ lpc = "ip"
  /\ IF this.idx \in up
       THEN lpc' = "create" /\ this' = [this EXCEPT !.ip = this.idx]
       ELSE lpc' = "stopped" /\ UNCHANGED this
  /\ UNCHANGED <<up, changes, files, opened, closed, msgs, frames>> /\ Reading

\* The reader is created, and the message returned.
CreateReader ==
  /\ Handler("create", "ready")
  /\ reader' = [reader EXCEPT ![files[this.fd]] = "call"]
  /\ Returned
  /\ UNCHANGED <<up, changes, files, opened, closed, this, from, frames>>

\* AC_INET_SEND_ARP_CMD: send_arp's frame goes to the interface ifindex through the
\* socket, with its addresses; an error of sendmsg is printed.
SendArpCmd ==
  /\ Handler("ready", "ready")
  /\ msgs.got < MaxMsgs
  /\ frames' = IF this.ifindex \in up
                 THEN frames \cup {[file |-> files[this.fd], ifindex |-> this.ifindex,
                                    sha |-> this.mac, spa |-> this.ip]}
                 ELSE frames
  /\ msgs' = [got |-> msgs.got + 1, returned |-> msgs.returned + 1]
  /\ UNCHANGED <<up, changes, files, opened, closed, this>> /\ Reading

\* Any other message.
OtherCmd ==
  /\ Handler("ready", "ready")
  /\ msgs.got < MaxMsgs
  /\ msgs' = [got |-> msgs.got + 1, returned |-> msgs.returned + 1]
  /\ UNCHANGED <<up, changes, files, opened, closed, this, frames>> /\ Reading

Closed(d) == [files EXCEPT ![d] = None]

\* AC_DEINIT_CMD: close.
DeinitCmd ==
  /\ Handler("ready", "removed")
  /\ files' = Closed(this.fd)
  /\ closed' = closed \cup ({files[d] : d \in Fds} \ {files'[d] : d \in Fds})
  /\ msgs' = [got |-> msgs.got + 1, returned |-> msgs.returned + 1]
  /\ UNCHANGED <<up, changes, opened, this, frames>> /\ Reading

\* AcInetLink_init, again.
AddAgain ==
  /\ Handler("removed", "added")
  /\ opened < MaxFiles
  /\ UNCHANGED <<up, changes, files, opened, closed, this, msgs, frames>> /\ Reading

-----------------------------------------------------------------------------
(* reader_thread.                                                          *)

HandlerVars == UNCHANGED <<lpc, files, opened, closed, this, msgs, frames>>

\* recvmsg on this->fd: EBADF, or it waits with the file the number stands for.
Recvmsg(r) ==
  /\ lpc # "stopped"
  /\ reader[r] = "call"
  /\ reader' = [reader EXCEPT ![r] = IF files[this.fd] = None THEN "ended" ELSE "in"]
  /\ from' = [from EXCEPT ![r] = IF files[this.fd] = None THEN @ ELSE @ \cup {files[this.fd]}]
  /\ UNCHANGED <<up, changes>> /\ HandlerVars

\* A packet, or EINTR: it goes on.  Another error, or a file that is no socket: it ends.
RecvReturns(r) ==
  /\ lpc # "stopped"
  /\ reader[r] = "in"
  /\ \E s \in {"call", "ended"} : reader' = [reader EXCEPT ![r] = s]
  /\ UNCHANGED <<up, changes, from>> /\ HandlerVars

-----------------------------------------------------------------------------
(* The others.                                                             *)

InterfaceChanges(i) ==
  /\ changes < MaxChanges
  /\ changes' = changes + 1
  /\ up' = IF i \in up THEN up \ {i} ELSE up \cup {i}
  /\ UNCHANGED <<reader, from>> /\ HandlerVars

OthersOpen ==
  /\ FreeFds # {}
  /\ OpenFile(Lowest(FreeFds))
  /\ UNCHANGED <<lpc, up, changes, closed, this, msgs, reader, from, frames>>

Next ==
  \/ InitCmd \/ GetIfindex \/ GetMac \/ GetIp \/ CreateReader
  \/ SendArpCmd \/ OtherCmd \/ DeinitCmd \/ AddAgain
  \/ \E r \in Readers : Recvmsg(r) \/ RecvReturns(r)
  \/ \E i \in Interfaces : InterfaceChanges(i)
  \/ OthersOpen

Spec == Init /\ [][Next]_ilvars

-----------------------------------------------------------------------------
(* Properties                                                              *)

\* What is sent goes through a socket of the component, to one interface, with that
\* interface's own addresses, although interfaces come and go between the three
\* questions that AC_INIT_CMD asks; and every message that was processed is returned,
\* unless the program stopped.
FramesAreOne ==
  /\ \A f \in frames : f.sha = f.ifindex /\ f.spa = f.ifindex /\ reader[f.file] # "none"
  /\ lpc \in {"added", "ready", "removed"} => msgs.returned = msgs.got

\* A reader receives from its own socket, as long as that is not closed.  (After that
\* it may receive from a file which the number stands for by then, even the socket of
\* a later AC_INIT_CMD, for nobody waits for its end.)
ReadsOwnSocket == \A r \in Readers : from[r] \subseteq {r} \/ r \in closed

\* Both: what is sent, and what is received, is of the one socket.
SocketsKeptApart == FramesAreOne /\ ReadsOwnSocket
=============================================================================
