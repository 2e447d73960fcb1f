------------------------------- MODULE Startup -------------------------------
(***************************************************************************)
(* How nwm becomes the window manager, and that only one nwm is: main() of *)
(* nwm.c up to the event loop, and the socket of the REPL (repl-server.c). *)
(*                                                                         *)
(* Several nwm processes are started, at once or one after the end or the  *)
(* crash of another.  Requests to the X server are asynchronous: they wait *)
(* in the connection until the server takes them, and it takes none but    *)
(* those of the connection that has grabbed it.  There is one X server: a  *)
(* second one (run-in-xephyr) has a window manager of its own, which takes *)
(* the socket in the same ~/.nwm away from this one.                       *)
(***************************************************************************)
EXTENDS Sequences

CONSTANTS
    Wms,       \* the nwm processes; one that is started again is another one
    None,
    Windows,   \* the windows that programs ask to map
    HasHome,   \* the processes that have HOME in their environment
    ConfDirs,  \* what ~/.nwm can be at first: "there", "missing", "unusable"
    Files,     \* the files in it once it is there
    MayEnd   \* the processes that can be stopped, or killed at any time

ASSUME StartupAssumption ==
    /\ None \notin Wms
    /\ HasHome \subseteq Wms /\ MayEnd \subseteq Wms
    /\ ConfDirs \subseteq {"there", "missing", "unusable"}
    /\ Files \subseteq {"init.scm", "auto-tile.scm", "tags.scm"}

VARIABLES
    pc,        \* pc[w]: how far main() of w has got
    out,       \* out[w]: requests of w that the server has not taken
    in,        \* in[w]: errors and events that w has not read
    loaded,    \* loaded[w]: the Scheme files w has read to the end
    grabbed,   \* the process that has grabbed the server, or None
    redirect,  \* the process the root window's requests are redirected to
    screen,    \* screen[x]: what has become of window x
    asked,     \* history: the process x's request has been handed to, or None
    conf_dir,  \* ~/.nwm
    sock       \* the process that listens on ~/.nwm/sock, if the file is there

svars == <<pc, out, in, loaded, grabbed, redirect, screen, asked, conf_dir, sock>>

\* The places in main(), in order; "off" is before it and "gone" after.
Steps == {"begin", "sync", "poll", "scan", "select", "unlink", "bind", "load", "loop"}

StartupTypeOK ==
    /\ pc \in [Wms -> Steps \cup {"off", "gone"}]
    /\ out \in [Wms -> Seq({"grab", "claim", "select", "ungrab"})]
    /\ in \in [Wms -> Seq(Windows \cup {"error"})]
    /\ loaded \in [Wms -> SUBSET Files]
    /\ grabbed \in Wms \cup {None} /\ redirect \in Wms \cup {None}
    /\ screen \in [Windows -> {"none", "calling", "asked", "mapped"}]
    /\ asked \in [Windows -> Wms \cup {None}]
    /\ conf_dir \in {"there", "missing", "unusable"}
    /\ sock \in Wms \cup {None}

StartupInit ==
    /\ pc = [w \in Wms |-> "off"]
    /\ out = [w \in Wms |-> <<>>] /\ in = [w \in Wms |-> <<>>]
    /\ loaded = [w \in Wms |-> {}]
    /\ grabbed = None /\ redirect = None
    /\ screen = [x \in Windows |-> "none"] /\ asked = [x \in Windows |-> None]
    /\ conf_dir \in ConfDirs
    /\ sock = None

----------------------------------------------------------------------------
(* The X server and the programs.                                          *)

Unless(w, holder) == IF holder = w THEN None ELSE holder

\* The end of a process: the server takes back what it held.
Disconnect(w) ==
    /\ pc' = [pc EXCEPT ![w] = "gone"]
    /\ out' = [out EXCEPT ![w] = <<>>] /\ in' = [in EXCEPT ![w] = <<>>]
    /\ grabbed' = Unless(w, grabbed) /\ redirect' = Unless(w, redirect)
    /\ UNCHANGED <<loaded, screen, asked, conf_dir, sock>>

\* Selecting for SubstructureRedirect is an error while another has it.
Redirect(w) ==
    IF redirect \in {None, w}
    THEN redirect' = w /\ in' = in
    ELSE redirect' = redirect /\ in' = [in EXCEPT ![w] = Append(@, "error")]

TakeRequest(w) ==
    /\ out[w] # <<>> /\ grabbed \in {None, w}
    /\ out' = [out EXCEPT ![w] = Tail(@)]
    /\ CASE Head(out[w]) = "grab"   -> grabbed' = w /\ UNCHANGED <<redirect, in>>
         [] Head(out[w]) = "ungrab" -> grabbed' = None /\ UNCHANGED <<redirect, in>>
         [] OTHER                   -> Redirect(w) /\ UNCHANGED grabbed
    /\ UNCHANGED <<pc, loaded, screen, asked, conf_dir, sock>>

AskToMap(x) ==
    /\ screen[x] = "none" /\ screen' = [screen EXCEPT ![x] = "calling"]
    /\ UNCHANGED <<pc, out, in, loaded, grabbed, redirect, asked, conf_dir, sock>>

\* Without a window manager a window is mapped at once.
TakeMap(x) ==
    /\ screen[x] = "calling" /\ grabbed = None
    /\ \/ /\ redirect = None
          /\ screen' = [screen EXCEPT ![x] = "mapped"]
          /\ UNCHANGED <<in, asked>>
       \/ /\ redirect # None
          /\ screen' = [screen EXCEPT ![x] = "asked"]
          /\ asked' = [asked EXCEPT ![x] = redirect]
          /\ in' = [in EXCEPT ![redirect] = Append(@, x)]
    /\ UNCHANGED <<pc, out, loaded, grabbed, redirect, conf_dir, sock>>

----------------------------------------------------------------------------
(* main().                                                                 *)

Moves(w, from, to) == pc[w] = from /\ pc' = [pc EXCEPT ![w] = to]
Sends(w, requests) == out' = [out EXCEPT ![w] = @ \o requests]

\* Creating the directory may fail; nwm goes on in any case.
init_conf_dir(w) ==
    IF w \in HasHome /\ conf_dir = "missing"
    THEN conf_dir' \in {"there", "missing"} ELSE UNCHANGED conf_dir

\* Mutant: the socket is made first.
BeginWithSocket(w) ==
    /\ Moves(w, "off", "begin")
    /\ init_conf_dir(w)
    /\ sock' = w
    /\ UNCHANGED <<out, in, loaded, grabbed, redirect, screen, asked>>

\* xcb_connect and what comes before the first request.
Begin(w) ==
    /\ Moves(w, "off", "begin")
    /\ init_conf_dir(w)
    /\ UNCHANGED <<out, in, loaded, grabbed, redirect, screen, asked, sock>>

\* Mutant: the server is not grabbed.
ClaimUngrabbed(w) ==
    /\ Moves(w, "begin", "sync")
    /\ Sends(w, <<"claim">>)
    /\ UNCHANGED <<in, loaded, grabbed, redirect, screen, asked, conf_dir, sock>>

Claim(w) ==
    /\ Moves(w, "begin", "sync")
    /\ Sends(w, <<"grab", "claim">>)
    /\ UNCHANGED <<in, loaded, grabbed, redirect, screen, asked, conf_dir, sock>>

\* Mutant: the connection is flushed only.
SyncFlushOnly(w) ==
    /\ Moves(w, "sync", "poll")
    /\ UNCHANGED <<out, in, loaded, grabbed, redirect, screen, asked, conf_dir, sock>>

\* xcb_aux_sync waits for an answer, which comes after that to the claim.
Sync(w) ==
    /\ Moves(w, "sync", "poll")
    /\ out[w] = <<>>
    /\ UNCHANGED <<out, in, loaded, grabbed, redirect, screen, asked, conf_dir, sock>>

\* xcb_event_poll_for_event_loop with handle_startup_error for errors; events
\* have no handlers yet and are thrown away.
Poll(w) ==
    \/ /\ pc[w] = "poll" /\ in[w] # <<>>
       /\ IF Head(in[w]) = "error" THEN Disconnect(w)
          ELSE /\ in' = [in EXCEPT ![w] = Tail(@)]
               /\ UNCHANGED <<pc, out, loaded, grabbed, redirect, screen, asked, conf_dir, sock>>
    \/ /\ Moves(w, "poll", "scan") /\ in[w] = <<>>
       /\ UNCHANGED <<out, in, loaded, grabbed, redirect, screen, asked, conf_dir, sock>>

\* scan_windows finds no client for any window, the list being empty;
\* xinerama_test asks for what is only logged.  Both wait for replies.  The
\* handlers are set: nothing is thrown away from here on.
Scan(w) ==
    /\ Moves(w, "scan", "select")
    /\ out[w] = <<>>
    /\ UNCHANGED <<out, in, loaded, grabbed, redirect, screen, asked, conf_dir, sock>>

\* Mutant: the server stays grabbed.
SelectGrabbed(w) ==
    /\ Moves(w, "select", "unlink")
    /\ Sends(w, <<"select">>)
    /\ UNCHANGED <<in, loaded, grabbed, redirect, screen, asked, conf_dir, sock>>

\* The event mask is replaced by one that has SubstructureRedirect again.
Select(w) ==
    /\ Moves(w, "select", "unlink")
    /\ Sends(w, <<"select", "ungrab">>)
    /\ UNCHANGED <<in, loaded, grabbed, redirect, screen, asked, conf_dir, sock>>

\* repl_server_socket_init.  Without HOME there is no path to make one of, and
\* nwm dies of it.
Unlink(w) ==
    \/ /\ w \in HasHome /\ Moves(w, "unlink", "bind")
       /\ sock' = IF conf_dir = "there" THEN None ELSE sock
       /\ UNCHANGED <<out, in, loaded, grabbed, redirect, screen, asked, conf_dir>>
    \/ w \notin HasHome /\ pc[w] = "unlink" /\ Disconnect(w)

Bind(w) ==
    \/ /\ Moves(w, "bind", "load")
       /\ conf_dir = "there" /\ sock = None
       /\ sock' = w
       /\ UNCHANGED <<out, in, loaded, grabbed, redirect, screen, asked, conf_dir>>
    \/ /\ pc[w] = "bind" /\ ~(conf_dir = "there" /\ sock = None)
       /\ Disconnect(w)

load_init_scheme(w) ==
    /\ Moves(w, "load", "loop")
    /\ loaded' = [loaded EXCEPT ![w] =
           IF "init.scm" \notin Files \/ "auto-tile.scm" \notin Files THEN {}
           ELSE IF "tags.scm" \notin Files THEN {"auto-tile.scm"} ELSE Files]
    /\ UNCHANGED <<out, in, grabbed, redirect, screen, asked, conf_dir, sock>>

\* The event loop: handle_error prints, handle_map_request_event maps.
Handle(w) ==
    /\ pc[w] = "loop" /\ in[w] # <<>>
    /\ in' = [in EXCEPT ![w] = Tail(@)]
    /\ screen' = IF Head(in[w]) = "error" THEN screen
                 ELSE [screen EXCEPT ![Head(in[w])] = "mapped"]
    /\ UNCHANGED <<pc, out, loaded, grabbed, redirect, asked, conf_dir, sock>>

\* nwm-stop, or any other end; the socket file stays where it is.
Stop(w) == pc[w] = "loop" /\ w \in MayEnd /\ Disconnect(w)
Crash(w) == pc[w] \notin {"off", "loop", "gone"} /\ w \in MayEnd /\ Disconnect(w)

Main(w) ==
    \/ Begin(w) \/ Claim(w) \/ Sync(w) \/ Poll(w) \/ Scan(w) \/ Select(w)
    \/ Unlink(w) \/ Bind(w) \/ load_init_scheme(w) \/ Handle(w)

Rest == (\A w \in Wms : pc[w] \in {"loop", "gone"}) /\ UNCHANGED svars

StartupNext ==
    \/ \E w \in Wms : Main(w) \/ TakeRequest(w) \/ Stop(w) \/ Crash(w)
    \/ \E x \in Windows : AskToMap(x) \/ TakeMap(x)
    \/ Rest

StartupSpec == StartupInit /\ [][StartupNext]_svars

\* The processes run once they are started, and the server serves everyone it
\* may serve.
StartupFairSpec ==
    /\ StartupSpec
    /\ \A w \in Wms :
          /\ WF_svars(pc[w] # "off" /\ Main(w))
          /\ SF_svars(TakeRequest(w))
    /\ \A x \in Windows : SF_svars(TakeMap(x))

----------------------------------------------------------------------------
(* Properties.                                                             *)

PastTheCheck(w) == pc[w] \in {"scan", "select", "unlink", "bind", "load", "loop"}

\* An nwm that has got past the check is the one the root window's requests go
\* to, however many are started at once ("This will cause an error if a window
\* manager is already running"): claim, sync and poll in that order.
OnlyOneManages == \A w \in Wms : PastTheCheck(w) => redirect = w

\* nwm-repl reaches the nwm that manages the screen: one that gives up at the
\* check does not touch the socket of the other (repl_server_socket_init runs
\* behind the check; for the processes of one X server).
SocketOfManager == \A w \in Wms : pc[w] \in {"load", "loop"} => sock = w

\* No request to map a window is thrown away while nwm has no handlers: none
\* can come before the server is released.
NothingThrownAway ==
    \A w \in Wms : pc[w] = "poll" => \A k \in DOMAIN in[w] : in[w][k] = "error"

\* A window is mapped whenever its program asks, before, while or after nwm
\* starts, whatever other processes have come to an end; only a request that was
\* handed to an nwm which has ended since then is lost with it
\* (handle_map_request_event; the replacing of one nwm by another).
WindowsAreMapped ==
    \A x \in Windows :
        screen[x] = "calling" ~>
            \/ screen[x] = "mapped"
            \/ asked[x] # None /\ pc[asked[x]] = "gone"

\* Whoever is started ends up managing the screen or gives up; nobody waits for
\* a server that stays grabbed.
StartsOrGivesUp == \A w \in Wms : pc[w] = "begin" ~> pc[w] \in {"loop", "gone"}
=============================================================================
