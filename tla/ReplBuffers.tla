----------------------------- MODULE ReplBuffers -----------------------------
(***************************************************************************)
(* What is inside the messages of the REPL: the fixed buffers of a         *)
(* connection and the Scheme port that writes into them (repl-server.c),   *)
(* and the one read() with which nwm-repl takes an answer (nwm-repl.c).    *)
(* When a connection is selected and served is the subject of ReplServer;  *)
(* here every write into a buffer is a step, and so is each of the garbage *)
(* collector, which knows nothing of the ports that connections point to.  *)
(*                                                                         *)
(* A byte is a pair: whose evaluation wrote it, and for which line.        *)
(***************************************************************************)
EXTENDS Integers, Sequences, SequencesExt

CONSTANTS
    Peers,      \* the nwm-repl processes
    None,       \* no connection; as a port, one that is of no connection
    NUL,        \* the byte that ends a string
    BUFSIZE,    \* the size of each buffer; nwm-repl has one of the same size
    MaxLines,   \* bound: the lines typed into one nwm-repl
    LineSizes,  \* how long a line can be
    Outputs,    \* how much an expression can print at a time
    Values,     \* how long its printed value can be, 0 if it is unspecified
    KeyOutputs, \* how much a procedure run by a key or a hook can print
    MayLeave    \* the peers that may end

ASSUME ReplBuffersAssumption ==
    /\ None \notin Peers
    /\ BUFSIZE \in Nat \ {0, 1} /\ MaxLines \in Nat
    /\ LineSizes \subseteq Nat \ {0} /\ Outputs \subseteq Nat
    /\ Values \subseteq Nat /\ KeyOutputs \subseteq Nat
    /\ MayLeave \subseteq Peers
    /\ NUL \notin Peers \X (0..MaxLines)

VARIABLES
    conn_list,    \* the connections the server serves, newest first
    freed,        \* the peers whose connection it has freed
    inbox,        \* inbox[p]: the bytes waiting for the server, as line numbers
    write_buf,    \* write_buf[p]: what lies between begin_p and end_p
    outbox,       \* outbox[p]: the bytes waiting for nwm-repl
    port,         \* port[p]: whose port lies where conn->port of p points
    output_port,  \* the connection whose port is the current output port, or
                  \*   None: the standard output is nwm's first
    conn,         \* the connection that is being served, or None
    line,         \* which line of it is evaluated
    stage,        \* "select", or how far serving it has got: "eval", "newline"
                  \*   or "reply"
    asked,        \* asked[p]: how many lines p has sent
    phase,        \* phase[p]: "off", "prompt", "reading" or "left"
    printed,      \* printed[p]: what p showed for its last line
    due,          \* due[p]: how many bytes of text the answer to the last
                  \*   line has so far, or -1 if some did not fit or went to
                  \*   another port (history)
    status        \* "running" or "dead"

peerVars == <<asked, phase, printed>>
turnVars == <<conn, line, stage>>
rvars == <<conn_list, freed, inbox, write_buf, outbox, port, output_port,
           turnVars, peerVars, due, status>>

Bytes == (Peers \X (0..MaxLines)) \cup {NUL}
Connections == {conn_list[k] : k \in DOMAIN conn_list}

BuffersTypeOK ==
    /\ conn_list \in Seq(Peers) /\ freed \subseteq Peers
    /\ inbox \in [Peers -> Seq(0..MaxLines)]
    /\ write_buf \in [Peers -> Seq(Bytes)]
    /\ outbox \in [Peers -> Seq(Bytes)]
    /\ port \in [Peers -> Peers \cup {None}]
    /\ output_port \in Peers \cup {None}
    /\ line \in 0..MaxLines
    /\ \/ stage = "select" /\ conn = None
       \/ stage \in {"eval", "newline", "reply"} /\ conn \in Peers
    /\ asked \in [Peers -> 0..MaxLines]
    /\ phase \in [Peers -> {"off", "prompt", "reading", "left"}]
    /\ printed \in [Peers -> Seq(Bytes)]
    /\ due \in [Peers -> Nat \cup {-1}]
    /\ status \in {"running", "dead"}

BuffersInit ==
    /\ conn_list = <<>> /\ freed = {}
    /\ inbox = [p \in Peers |-> <<>>]
    /\ write_buf = [p \in Peers |-> <<>>]
    /\ outbox = [p \in Peers |-> <<>>]
    /\ port = [p \in Peers |-> p] /\ output_port = None
    /\ conn = None /\ line = 0 /\ stage = "select"
    /\ asked = [p \in Peers |-> 0]
    /\ phase = [p \in Peers |-> "off"]
    /\ printed = [p \in Peers |-> <<>>]
    /\ due = [p \in Peers |-> 0]
    /\ status = "running"

----------------------------------------------------------------------------
(* nwm-repl.                                                               *)

SendLine(p) ==
    /\ phase[p] = "prompt" /\ asked[p] < MaxLines
    /\ phase' = [phase EXCEPT ![p] = "reading"]
    /\ asked' = [asked EXCEPT ![p] = @ + 1]
    /\ \E size \in LineSizes :
          inbox' = [inbox EXCEPT ![p] = @ \o [j \in 1..size |-> asked'[p]]]
    /\ UNCHANGED <<conn_list, freed, write_buf, outbox, port, output_port>>
    /\ UNCHANGED <<turnVars, printed, due, status>>

\* The bytes before the first NUL: what %s prints.
UpToNul(s) ==
    IF NUL \in Range(s)
    THEN SubSeq(s, 1, (CHOOSE k \in DOMAIN s :
                         s[k] = NUL /\ \A j \in 1..(k - 1) : s[j] # NUL) - 1)
    ELSE s

Least(m, n) == IF m < n THEN m ELSE n

\* One read(); what it leaves in the socket is there for the next line.
ReadAnswer(p) ==
    /\ phase[p] = "reading" /\ outbox[p] # <<>>
    /\ phase' = [phase EXCEPT ![p] = "prompt"]
    /\ LET n == Least(BUFSIZE, Len(outbox[p]))
       IN /\ printed' = [printed EXCEPT ![p] = UpToNul(SubSeq(outbox[p], 1, n))]
          /\ outbox' = [outbox EXCEPT ![p] = SubSeq(@, n + 1, Len(@))]
    /\ UNCHANGED <<conn_list, freed, inbox, write_buf, port, output_port>>
    /\ UNCHANGED <<turnVars, asked, due, status>>

Leave(p) ==
    /\ phase[p] = "prompt" /\ p \in MayLeave
    /\ phase' = [phase EXCEPT ![p] = "left"]
    /\ UNCHANGED <<conn_list, freed, inbox, write_buf, outbox, port, output_port>>
    /\ UNCHANGED <<turnVars, asked, printed, due, status>>

----------------------------------------------------------------------------
(* The ports.  Only the current output port is sure to be kept: conn->port *)
(* lies in memory of malloc, where the collector does not look.            *)

\* The port of q is found to be garbage.
Collect(q) ==
    /\ status = "running" /\ phase[q] # "off" /\ output_port # q
    /\ \E p \in Connections : port[p] = q
    /\ port' = [p \in Peers |-> IF port[p] = q THEN None ELSE port[p]]
    /\ UNCHANGED <<conn_list, freed, inbox, write_buf, outbox, output_port>>
    /\ UNCHANGED <<turnVars, peerVars, due, status>>

\* A connection is accepted; its port may take the place of a collected one,
\* and more than one connection may point there.
Connect(p) ==
    /\ phase[p] = "off" /\ stage = "select"
    /\ phase' = [phase EXCEPT ![p] = "prompt"]
    /\ conn_list' = <<p>> \o conn_list
    /\ write_buf' = [write_buf EXCEPT ![p] = <<>>]
    /\ \E reused \in SUBSET {q \in Peers : port[q] = None} :
          port' = [q \in Peers |-> IF q \in reused THEN p ELSE port[q]]
    /\ UNCHANGED <<freed, inbox, outbox, output_port>>
    /\ UNCHANGED <<turnVars, asked, printed, due, status>>

----------------------------------------------------------------------------
(* The buffers.                                                            *)

\* Mutant: the room that is left is not compared with the count.
io_buffer_write_past(buf, bytes) == buf \o bytes

\* All of it or nothing, and nobody looks at the result.
io_buffer_write(buf, bytes) ==
    IF Len(buf) + Len(bytes) <= BUFSIZE THEN buf \o bytes ELSE buf

Text(p, l, size) == [j \in 1..size |-> <<p, l>>]

\* What is printed goes through the current output port.  If the connection of
\* the port is freed its memory may be another connection now, it may be nothing
\* that matters, or nwm dies.
io_buffer_port_write(text) ==
    \/ output_port = None /\ UNCHANGED <<write_buf, status>>
    \/ /\ output_port \in Peers \ freed
       /\ write_buf' = [write_buf EXCEPT ![output_port] = io_buffer_write(@, text)]
       /\ UNCHANGED status
    \/ /\ output_port \in freed
       /\ \/ /\ \E p \in Connections :
                   write_buf' = [write_buf EXCEPT ![p] = io_buffer_write(@, text)]
             /\ UNCHANGED status
          \/ status' \in {"running", "dead"} /\ UNCHANGED write_buf

\* A procedure that a key or a hook runs prints: into the buffer of whoever
\* evaluated last (line 0), also if that connection is not on the list now.
KeyOutput ==
    /\ status = "running" /\ stage = "select" /\ output_port # None
    /\ \E size \in KeyOutputs : io_buffer_port_write(Text(output_port, 0, size))
    /\ UNCHANGED <<conn_list, freed, inbox, outbox, port, output_port>>
    /\ UNCHANGED <<turnVars, peerVars, due>>

----------------------------------------------------------------------------
(* Serving a connection: repl_conn_read, repl_conn_eval_lisp and, in the   *)
(* same pass of the loop, repl_conn_write.                                 *)

\* What is there, at most a buffer full; the read buffer is empty again after
\* the evaluation.
TakeBytes(p) == Least(BUFSIZE, Len(inbox[p]))

\* Mutant: the output port is set for the first evaluation only.
SetPort_kept(p) ==
    /\ output_port' = IF output_port = None THEN p ELSE output_port
    /\ UNCHANGED status

\* scm_set_current_output_port.  If the port is gone what lies there is no port
\* to write to, an error that nothing catches, or it is a port that is not of a
\* connection.
SetPort(p) ==
    \/ output_port' = port[p] /\ UNCHANGED status
    \/ port[p] = None /\ status' = "dead" /\ UNCHANGED output_port

Serve(p) ==
    /\ status = "running" /\ stage = "select" /\ p \in Connections /\ inbox[p] # <<>>
    /\ LET n == TakeBytes(p)
       IN /\ line' = inbox[p][n]
          /\ inbox' = [inbox EXCEPT ![p] = SubSeq(@, n + 1, Len(@))]
    /\ conn' = p /\ stage' = "eval"
    /\ due' = [due EXCEPT ![p] = 0]
    /\ SetPort(p)
    /\ UNCHANGED <<conn_list, freed, write_buf, outbox, port, peerVars>>

\* The answer grows by size bytes of text, or is not whole.
Counted(size, whole) ==
    due' = [due EXCEPT ![conn] = IF whole /\ @ >= 0 THEN @ + size ELSE -1]

\* The expression prints.
Display ==
    /\ status = "running" /\ stage = "eval"
    /\ \E size \in Outputs :
          /\ io_buffer_port_write(Text(conn, line, size))
          /\ Counted(size, output_port = conn /\ Len(write_buf[conn]) + size <= BUFSIZE)
    /\ UNCHANGED <<conn_list, freed, inbox, outbox, port, output_port>>
    /\ UNCHANGED <<turnVars, peerVars>>

\* What repl_conn_eval_lisp itself puts into the buffer of the connection.
Put(bytes, size, next) ==
    /\ write_buf' = [write_buf EXCEPT ![conn] = io_buffer_write(@, bytes)]
    /\ Counted(size, Len(write_buf[conn]) + Len(bytes) <= BUFSIZE)
    /\ stage' = next
    /\ UNCHANGED <<conn_list, freed, inbox, outbox, port, output_port>>
    /\ UNCHANGED <<conn, line, peerVars, status>>

\* Mutant: strlen(res_str) without the + 1.
Result_silent ==
    /\ status = "running" /\ stage = "eval"
    /\ \E size \in Values :
          IF size = 0 THEN Put(<<>>, 0, "reply")
          ELSE Put(Text(conn, line, size), size, "newline")

\* The evaluation returns a value; the unspecified one is not shown.
Result ==
    /\ status = "running" /\ stage = "eval"
    /\ \E size \in Values :
          IF size = 0 THEN Put(<<NUL>>, 0, "reply")
          ELSE Put(Text(conn, line, size), size, "newline")

Newline ==
    /\ status = "running" /\ stage = "newline"
    /\ Put(Text(conn, line, 1) \o <<NUL>>, 1, "reply")

\* Mutant: the buffer that is written is not reset.
repl_conn_write_unreset ==
    /\ status = "running" /\ stage = "reply"
    /\ outbox' = [outbox EXCEPT ![conn] = @ \o write_buf[conn]]
    /\ status' = IF phase[conn] = "left" THEN "dead" ELSE "running"
    /\ conn' = None /\ line' = 0 /\ stage' = "select"
    /\ UNCHANGED <<conn_list, freed, inbox, write_buf, port, output_port, peerVars, due>>

\* It does not look whether the peer is still there: SIGPIPE if not.
repl_conn_write ==
    /\ status = "running" /\ stage = "reply"
    /\ outbox' = [outbox EXCEPT ![conn] = @ \o write_buf[conn]]
    /\ write_buf' = [write_buf EXCEPT ![conn] = <<>>]
    /\ status' = IF phase[conn] = "left" THEN "dead" ELSE "running"
    /\ conn' = None /\ line' = 0 /\ stage' = "select"
    /\ UNCHANGED <<conn_list, freed, inbox, port, output_port, peerVars, due>>

\* End of file: the structure with its buffers is freed, the connections
\* older than it are cut off the list (see ReplServer), and the current
\* output port is what it was.
Free(p) ==
    /\ status = "running" /\ stage = "select" /\ phase[p] = "left" /\ inbox[p] = <<>>
    /\ \E k \in DOMAIN conn_list :
          conn_list[k] = p /\ conn_list' = SubSeq(conn_list, 1, k - 1)
    /\ freed' = freed \cup {p}
    /\ UNCHANGED <<inbox, write_buf, outbox, port, output_port>>
    /\ UNCHANGED <<turnVars, peerVars, due, status>>

\* Nothing is on its way.
Rest ==
    /\ \/ status = "dead"
       \/ stage = "select" /\ \A p \in Connections : inbox[p] = <<>> /\ outbox[p] = <<>>
    /\ UNCHANGED rvars

Evaluation == Display \/ Result \/ Newline \/ repl_conn_write

BuffersNext ==
    \/ \E p \in Peers : SendLine(p) \/ ReadAnswer(p) \/ Leave(p)
    \/ \E p \in Peers : Connect(p) \/ Collect(p) \/ Serve(p) \/ Free(p)
    \/ Evaluation \/ KeyOutput \/ Rest

BuffersSpec == BuffersInit /\ [][BuffersNext]_rvars

\* Every connection on the list is served in each turn, evaluations end, and
\* nwm-repl runs.
BuffersFairSpec ==
    /\ BuffersSpec
    /\ \A p \in Peers : SF_rvars(Serve(p)) /\ WF_rvars(ReadAnswer(p))
    /\ WF_rvars(Result) /\ WF_rvars(Newline) /\ WF_rvars(repl_conn_write)

----------------------------------------------------------------------------
\* A longer line is read and evaluated in pieces, and each is answered.
LinesFit == \A size \in LineSizes : size <= BUFSIZE

----------------------------------------------------------------------------
(* Properties.                                                             *)

\* The server never writes past the end of a buffer: not with the next piece of
\* what an expression prints, its value or the newline, and not when keys, hooks
\* or the port of another session have written there before (io_buffer_write).
InBounds == \A p \in Peers : Len(write_buf[p]) <= BUFSIZE

\* What an evaluation prints and returns reaches the connection that asked for
\* it and no other (scm_set_current_output_port in repl_conn_eval_lisp), as
\* long as the collector has not taken the port of that connection away.
NoCrossTalk ==
    \A p \in Peers :
        \A b \in Range(write_buf[p]) \cup Range(outbox[p]) :
            b = NUL \/ b[2] = 0 \/ b[1] = p \/ port[b[1]] # b[1]

\* s ends with that much of the evaluation of p's line; what is in front of it
\* was printed by keys and hooks, or by a session whose port was collected.
EndsWith(s, p, l, size) ==
    /\ size <= Len(s)
    /\ \A k \in DOMAIN s :
          IF k <= Len(s) - size THEN s[k][2] = 0 \/ s[k][1] # p ELSE s[k] = <<p, l>>

\* An answer whose parts have all found room in the buffer, whatever was in it
\* before, is shown whole, in order, at the prompt of its own line, and with
\* nothing of another answer of the session (LinesFit).
AnswerShownWhole ==
    \A p \in Peers :
        phase[p] = "prompt" /\ asked[p] > 0 /\ due[p] >= 0 =>
            EndsWith(printed[p], p, asked[p], due[p])

\* nwm-repl gets its prompt back: something is sent for every line, even if
\* neither the output nor the value of the expression fits what is left of the
\* buffer, unless the server has lost the connection (see ReplServer).
LineAnswered ==
    \A p \in Peers :
        phase[p] = "reading" ~>
            (phase[p] = "prompt" \/ status = "dead" \/ p \notin Connections)
=============================================================================
