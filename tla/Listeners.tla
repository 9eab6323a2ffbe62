------------------------------ MODULE Listeners -------------------------------
(* The resolver's listeners (resolver/listeners.go, Serve and Shutdown of   *)
(* resolver/admin.go, Run of resolver/server.go): each is started in a      *)
(* goroutine of its own and registers how it is to be closed; Run closes    *)
(* them when one fails or the process is told to stop, which may come       *)
(* before a listener has registered, or before it listens.                  *)
EXTENDS Naturals, Sequences

VARIABLES
  phase,     \* Run: "off", "running", "stopping", "closing", "closed"
  closed,    \* Listeners.closed
  closers,   \* Listeners.closers
  todo,      \* the closers Shutdown has taken
  lst,       \* each listener: "off", "started", "bound", "ready", "serving", "ended"
  down,      \* servers told to shut down, those that do not listen yet included
  failed     \* an error waits in the channel fail

listenerVars == <<phase, closed, closers, todo, lst, down, failed>>

Transports == {"dot", "doh", "plain"}
All        == Transports \cup {"admin"}

ListenersOff(ph) ==
  /\ phase' = ph
  /\ closed' = FALSE /\ closers' = <<>> /\ todo' = <<>>
  /\ lst' = [k \in All |-> IF ph = "off" THEN "off" ELSE "started"]
  /\ down' = {} /\ failed' = FALSE

ListenersInit ==
  /\ phase = "off"
  /\ closed = FALSE /\ closers = <<>> /\ todo = <<>>
  /\ lst = [k \in All |-> "off"]
  /\ down = {} /\ failed = FALSE

\* Every configured listener gets its goroutine.
Start == phase = "off" /\ ListenersOff("running")

Becomes(k, state) == lst' = [lst EXCEPT ![k] = state]

\* Listening may fail, which ends the listener and, through fail, Run.
Listen(k, state) ==
  \/ Becomes(k, state) /\ UNCHANGED failed
  \/ Becomes(k, "ended") /\ failed' = TRUE

\* Mutant: a closer is registered although Shutdown has run the others.
Late_Registered == FALSE

\* track: too late, and the closer is run at once.
Late == closed

\* ServeDoT listens first ...
ListenDoT ==
  /\ lst["dot"] = "started"
  /\ Listen("dot", "bound")
  /\ UNCHANGED <<phase, closed, closers, todo, down>>

\* ... and registers then; the other two register before they listen.
track(k) ==
  /\ k \in Transports /\ lst[k] = (IF k = "dot" THEN "bound" ELSE "started")
  /\ IF Late
     THEN Becomes(k, "ended") /\ UNCHANGED closers
     ELSE /\ closers' = Append(closers, k)
          /\ Becomes(k, IF k = "dot" THEN "serving" ELSE "ready")
  /\ UNCHANGED <<phase, closed, todo, down, failed>>

\* Serve: the server is there for Shutdown to see.
SetServer ==
  /\ lst["admin"] = "started"
  /\ Becomes("admin", "ready")
  /\ UNCHANGED <<phase, closed, closers, todo, down, failed>>

\* ListenAndServe of a server that was shut down before returns at once.
ListenAndServe(k) ==
  /\ lst[k] = "ready"
  /\ IF k \in down THEN Becomes(k, "ended") /\ UNCHANGED failed ELSE Listen(k, "serving")
  /\ UNCHANGED <<phase, closed, closers, todo, down>>

\* Accepting fails for good while nobody has closed the listener.
AcceptFails(k) ==
  /\ lst[k] = "serving" /\ ~closed
  /\ Becomes(k, "ended") /\ failed' = TRUE
  /\ UNCHANGED <<phase, closed, closers, todo, down>>

\* Run is told to stop, or takes an error from fail.
Stop ==
  /\ phase = "running"
  /\ phase' = "stopping"
  /\ UNCHANGED <<closed, closers, todo, lst, down, failed>>

\* Listeners.Shutdown takes the closers ...
Shutdown ==
  /\ phase = "stopping"
  /\ phase' = "closing" /\ closed' = TRUE
  /\ todo' = closers /\ closers' = <<>>
  /\ UNCHANGED <<lst, down, failed>>

\* What shutting a server down does: an http.Server remembers it; a dns.Server
\* that does not listen yet returns an error and forgets it.
ShutServer(k) ==
  /\ lst' = [lst EXCEPT ![k] = IF @ = "serving" THEN "ended" ELSE @]
  /\ down' = IF k = "plain" THEN down ELSE down \cup {k}

\* ... and runs them, one after another.
RunCloser ==
  /\ phase = "closing" /\ todo # <<>>
  /\ todo' = Tail(todo)
  /\ ShutServer(Head(todo))
  /\ UNCHANGED <<phase, closed, closers, failed>>

\* Admin.Shutdown reads, unsynchronised, the server Serve's goroutine sets:
\* it may see none even where it has been set.
ShutdownAdmin ==
  /\ phase = "closing" /\ todo = <<>>
  /\ phase' = "closed"
  /\ \/ lst["admin"] # "started" /\ ShutServer("admin")
     \/ UNCHANGED <<lst, down>>
  /\ UNCHANGED <<closed, closers, todo, failed>>

\* Run returns two seconds later, and the process exits.
Exit == phase = "closed" /\ ListenersOff("off")

ListenerStep ==
  \/ ListenDoT \/ SetServer \/ Stop \/ Shutdown \/ RunCloser \/ ShutdownAdmin
  \/ \E k \in All : track(k) \/ ListenAndServe(k) \/ AcceptFails(k)

------------------------------------------------------------------------------

\* Once Shutdown has returned no TLS listener takes connections, whatever its
\* goroutine had come to when Shutdown began.  The plain listener and the
\* admin API may: the one when it had registered and did not listen yet, the
\* other when Shutdown did not see its server (listeners.go track, Shutdown;
\* admin.go Shutdown).
TLSListenersClosed == phase = "closed" => lst["dot"] # "serving" /\ lst["doh"] # "serving"
==============================================================================
