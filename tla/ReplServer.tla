------------------------------ MODULE ReplServer ------------------------------
(***************************************************************************)
(* The REPL server of nwm (repl-server.c) and the nwm-repl processes that  *)
(* talk to it (nwm-repl.c) over a local stream socket.                     *)
(*                                                                         *)
(* repl_server_step runs once per turn of nwm's event loop: it selects,    *)
(* accepts one connection, serves the readable ones and removes those at   *)
(* end of file.  Peers act between any two of its system calls, so what    *)
(* select reported is old when it is used.  A request stands for the text  *)
(* of one line of nwm-repl, an answer for what its evaluation writes.      *)
(***************************************************************************)
EXTENDS Integers, Sequences, SequencesExt

CONSTANTS
    Peers,        \* the nwm-repl processes, each with one connection
    Listener,     \* stands for the listening socket in a set of descriptors
    NoConn,       \* the null repl_conn_t pointer
    Backlog,      \* connections that may wait for accept: listen(fd, 1)
    MaxRequests,  \* bound: lines typed into one nwm-repl
    SockCap,      \* answers a socket holds before it is not writable
    MayClose,     \* the peers that may leave
    Pipelining    \* other programs, which send without waiting for answers

ASSUME ReplAssumption ==
    /\ Listener \notin Peers /\ NoConn \notin Peers /\ Listener # NoConn
    /\ Backlog \in Nat \ {0} /\ MaxRequests \in Nat /\ SockCap \in Nat \ {0}
    /\ MayClose \subseteq Peers /\ Pipelining \subseteq Peers

VARIABLES
    \* the peers and the sockets
    peer,       \* "off", "open", "reset" (left with answers unread), "closed"
    asked,      \* asked[p]: the number of the last request p sent
    answer,     \* answer[p]: what p read after it, <<>> while it waits
    backlog,    \* the connections not accepted yet
    inbox,      \* inbox[p]: requests the server has not read
    outbox,     \* outbox[p]: answers p has not read
    \* the server
    pc,           \* where repl_server_step is
    conn_list,    \* server->conn_list, newest connection first
    rset, wset,   \* what select reported readable and writable
    conn,         \* the position of the loop variable conn in conn_list
    delete_list,  \* the connection to remove, at most one (see Serve)
    write_buf     \* write_buf[p]: answers not written to the socket yet

peerVars == <<peer, asked, answer>>
serverVars == <<pc, conn_list, rset, wset, conn, delete_list, write_buf>>
vars == <<peerVars, backlog, inbox, outbox, serverVars>>

Requests == 1..MaxRequests
Open(p) == peer[p] = "open"
Connected == {conn_list[i] : i \in DOMAIN conn_list}
Waiting(p) == Open(p) /\ asked[p] > 0 /\ answer[p] = <<>>

TypeOK ==
    /\ peer \in [Peers -> {"off", "open", "reset", "closed"}]
    /\ asked \in [Peers -> 0..MaxRequests]
    /\ answer \in [Peers -> Seq(Requests)]
    /\ backlog \in Seq(Peers)
    /\ inbox \in [Peers -> Seq(Requests)] /\ outbox \in [Peers -> Seq(Requests)]
    /\ pc \in {"select", "accept", "serve", "reap", "killed", "assert_failed"}
    /\ conn_list \in Seq(Peers) /\ IsInjective(backlog \o conn_list)
    /\ rset \subseteq Peers \cup {Listener} /\ wset \subseteq Peers
    /\ conn \in Nat \ {0}
    /\ delete_list \in Peers \cup {NoConn}
    /\ write_buf \in [Peers -> Seq(Requests)]

Init ==
    /\ peer = [p \in Peers |-> "off"]
    /\ asked = [p \in Peers |-> 0]
    /\ answer = [p \in Peers |-> <<>>]
    /\ backlog = <<>>
    /\ inbox = [p \in Peers |-> <<>>]
    /\ outbox = [p \in Peers |-> <<>>]
    /\ pc = "select"
    /\ conn_list = <<>>
    /\ rset = {} /\ wset = {}
    /\ conn = 1
    /\ delete_list = NoConn
    /\ write_buf = [p \in Peers |-> <<>>]

Running == pc \notin {"killed", "assert_failed"}

----------------------------------------------------------------------------
(* nwm-repl: one request at a time, then one read.  Bound: MaxRequests.    *)

Connect(p) ==
    /\ peer[p] = "off" /\ Len(backlog) < Backlog
    /\ peer' = [peer EXCEPT ![p] = "open"]
    /\ backlog' = Append(backlog, p)
    /\ UNCHANGED <<asked, answer, inbox, outbox, serverVars>>

Send(p) ==
    /\ Open(p) /\ asked[p] < MaxRequests
    /\ ~Waiting(p) \/ p \in Pipelining
    /\ asked' = [asked EXCEPT ![p] = @ + 1]
    /\ answer' = [answer EXCEPT ![p] = <<>>]
    /\ inbox' = [inbox EXCEPT ![p] = Append(@, asked'[p])]
    /\ UNCHANGED <<peer, backlog, outbox, serverVars>>

Receive(p) ==
    /\ Waiting(p) /\ outbox[p] # <<>>
    /\ answer' = [answer EXCEPT ![p] = outbox[p]]
    /\ outbox' = [outbox EXCEPT ![p] = <<>>]
    /\ UNCHANGED <<peer, asked, backlog, inbox, serverVars>>

\* End of input at the prompt, or a signal at any moment.  Leaving answers
\* unread resets the connection.
Close(p) ==
    /\ Open(p) /\ p \in MayClose
    /\ peer' = [peer EXCEPT ![p] = IF outbox[p] = <<>> THEN "closed" ELSE "reset"]
    /\ UNCHANGED <<asked, answer, backlog, inbox, outbox, serverVars>>

PeerStep ==
    Running /\ \E p \in Peers : Connect(p) \/ Send(p) \/ Receive(p) \/ Close(p)

----------------------------------------------------------------------------
(* repl_server_step.                                                       *)

Readable(p) == inbox[p] # <<>> \/ peer[p] \in {"reset", "closed"}
Writable(p) == Len(outbox[p]) < SockCap \/ ~Open(p)

\* Mutant: only the newest connection is monitored.
SelectNewest ==
    /\ pc = "select"
    /\ LET newest == {p \in Connected : p = conn_list[1]}
       IN /\ rset' = {p \in newest : Readable(p)}
                     \cup (IF backlog # <<>> THEN {Listener} ELSE {})
          /\ wset' = {p \in newest : Writable(p)}
    /\ pc' = "accept"
    /\ UNCHANGED <<peerVars, backlog, inbox, outbox>>
    /\ UNCHANGED <<conn_list, conn, delete_list, write_buf>>

\* The step that returns because select fails does nothing: a stutter.
Select ==
    /\ pc = "select"
    /\ rset' = {p \in Connected : Readable(p)}
               \cup (IF backlog # <<>> THEN {Listener} ELSE {})
    /\ wset' = {p \in Connected : Writable(p)}
    /\ pc' = "accept"
    /\ UNCHANGED <<peerVars, backlog, inbox, outbox>>
    /\ UNCHANGED <<conn_list, conn, delete_list, write_buf>>

\* Mutant: the connection is added before it is taken from the backlog.
accept_conn_again ==
    /\ pc = "accept"
    /\ pc' = "serve" /\ conn' = 1
    /\ conn_list' = IF Listener \in rset
                    THEN <<Head(backlog)>> \o conn_list ELSE conn_list
    /\ UNCHANGED <<peerVars, backlog, inbox, outbox, rset, wset>>
    /\ UNCHANGED <<delete_list, write_buf>>

\* A new connection is walked over, but in neither descriptor set.
repl_server_accept_conn ==
    /\ pc = "accept"
    /\ pc' = "serve" /\ conn' = 1
    /\ \/ /\ Listener \in rset
          /\ conn_list' = <<Head(backlog)>> \o conn_list
          /\ backlog' = Tail(backlog)
       \/ /\ Listener \notin rset
          /\ UNCHANGED <<conn_list, backlog>>
    /\ UNCHANGED <<peerVars, inbox, outbox, rset, wset, delete_list, write_buf>>

Serving(p) == pc = "serve" /\ conn \in DOMAIN conn_list /\ p = conn_list[conn]

\* Neither readable, or a read error: the connection stays.
Skip(p) ==
    /\ Serving(p)
    /\ \/ p \notin rset /\ UNCHANGED peer
       \/ /\ p \in rset /\ inbox[p] = <<>> /\ peer[p] = "reset"
          /\ peer' = [peer EXCEPT ![p] = "closed"]
    /\ conn' = conn + 1
    /\ UNCHANGED <<asked, answer, backlog, inbox, outbox>>
    /\ UNCHANGED <<pc, conn_list, rset, wset, delete_list, write_buf>>

\* Mutant: the write buffer is not reset after a write.
EvaluateAgain(p) ==
    /\ Serving(p) /\ p \in rset /\ inbox[p] # <<>>
    /\ inbox' = [inbox EXCEPT ![p] = <<>>]
    /\ write_buf' = [write_buf EXCEPT ![p] = Append(@, Last(inbox[p]))]
    /\ outbox' = [outbox EXCEPT ![p] =
                     IF p \in wset THEN @ \o write_buf'[p] ELSE @]
    /\ conn' = conn + 1
    /\ UNCHANGED <<peerVars, backlog, pc, conn_list, rset, wset, delete_list>>

\* All the text that is there is read and evaluated as one expression; the
\* answer joins what the write buffer still holds.  Writing to a peer that
\* left raises SIGPIPE, which nwm does not handle.
Evaluate(p) ==
    /\ Serving(p) /\ p \in rset /\ inbox[p] # <<>>
    /\ inbox' = [inbox EXCEPT ![p] = <<>>]
    /\ LET reply == Append(write_buf[p], Last(inbox[p]))
       IN \/ /\ p \notin wset
             /\ write_buf' = [write_buf EXCEPT ![p] = reply]
             /\ conn' = conn + 1
             /\ UNCHANGED <<pc, outbox>>
          \/ /\ p \in wset /\ Open(p)
             /\ outbox' = [outbox EXCEPT ![p] = @ \o reply]
             /\ write_buf' = [write_buf EXCEPT ![p] = <<>>]
             /\ conn' = conn + 1
             /\ UNCHANGED pc
          \/ /\ p \in wset /\ ~Open(p)
             /\ pc' = "killed"
             /\ UNCHANGED <<conn, outbox, write_buf>>
    /\ UNCHANGED <<peerVars, backlog, conn_list, rset, wset, delete_list>>

\* Adding the connection to delete_list overwrites the link that conn_list
\* runs through: the list and the loop end here.
EndOfFile(p) ==
    /\ Serving(p) /\ p \in rset /\ inbox[p] = <<>> /\ peer[p] = "closed"
    /\ delete_list' = p
    /\ conn_list' = SubSeq(conn_list, 1, conn)
    /\ conn' = conn + 1
    /\ UNCHANGED <<peerVars, backlog, inbox, outbox, pc, rset, wset, write_buf>>

Served ==
    /\ pc = "serve" /\ conn \notin DOMAIN conn_list
    /\ pc' = "reap"
    /\ UNCHANGED <<peerVars, backlog, inbox, outbox>>
    /\ UNCHANGED <<conn_list, rset, wset, conn, delete_list, write_buf>>

\* Mutant: the newest connection is removed instead.
ReapHead ==
    /\ pc = "reap"
    /\ conn_list' = IF delete_list = NoConn THEN conn_list ELSE Tail(conn_list)
    /\ pc' = "select"
    /\ delete_list' = NoConn
    /\ rset' = {} /\ wset' = {}
    /\ UNCHANGED <<peerVars, backlog, inbox, outbox, conn, write_buf>>

\* The removed connection is freed before its link is followed: the link is
\* NULL still, or an address that sglib's delete does not find in the list.
Reap ==
    /\ pc = "reap"
    /\ IF delete_list = NoConn
       THEN pc' = "select" /\ UNCHANGED conn_list
       ELSE /\ \E i \in DOMAIN conn_list :
                  conn_list[i] = delete_list /\ conn_list' = RemoveAt(conn_list, i)
            /\ pc' \in {"select", "assert_failed"}
    /\ delete_list' = NoConn
    /\ rset' = {} /\ wset' = {}
    /\ UNCHANGED <<peerVars, backlog, inbox, outbox, conn, write_buf>>

Serve == \E p \in Peers : Skip(p) \/ Evaluate(p) \/ EndOfFile(p)

ServerStep == Select \/ repl_server_accept_conn \/ Serve \/ Served \/ Reap

Dead == ~Running /\ UNCHANGED vars

Next == PeerStep \/ ServerStep \/ Dead

Spec == Init /\ [][Next]_vars

\* The event loop keeps calling repl_server_step; nwm-repl blocks in read.
FairSpec ==
    Spec /\ WF_vars(ServerStep) /\ \A p \in Peers : WF_vars(Running /\ Receive(p))

----------------------------------------------------------------------------
(* Properties.                                                             *)

\* What nwm-repl reads after a request is the answer to that request and
\* nothing else, although both sides only see a stream of bytes.
AnswerMatchesRequest ==
    \A p \in Peers \ Pipelining : answer[p] \in {<<>>, <<asked[p]>>}

Monitored(p) == p \in Connected \/ \E i \in DOMAIN backlog : backlog[i] = p

\* A request is answered, however many other connections there are and however
\* they are used, unless its sender leaves, nwm dies, or the connection is one
\* that repl_server_step has lost.
RequestAnswered ==
    \A p \in Peers \ Pipelining :
        Waiting(p) ~> (~Waiting(p) \/ ~Running \/ ~Monitored(p))

\* A connection is never dropped for the end of an older one.
NewerConnectionsKept ==
    [][\A i \in DOMAIN conn_list :
          conn_list[i] \notin Connected' /\ Open(conn_list[i]) =>
              \E j \in 1..(i - 1) :
                  peer[conn_list[j]] = "closed" /\ delete_list' = conn_list[j]]_vars

\* repl_server_step is to "monitor all client connections for read/write
\* availability" (repl-server.c:408).
AllConnectionsMonitored ==
    pc = "select" =>
        \A p \in Peers : Open(p) => Monitored(p)
=============================================================================
