-------------------------------- MODULE Ubar --------------------------------
(***************************************************************************)
(* ubar: the event loop and the threads that watch the sound server, the   *)
(* network and the displays for it (tools/ubar/src: ubar.c, data.c).       *)
(*                                                                         *)
(* Each source of data has a value in the world and the value the bar      *)
(* last read.  A change travels through the watcher's socket, its thread   *)
(* and a pipe to the loop, which then reads the value itself; for the      *)
(* volume the callbacks of PulseAudio's own thread read it and the loop    *)
(* takes it over under a mutex.  Pipes and sockets hold "something", since *)
(* every reader drains them.                                               *)
(*                                                                         *)
(* The sound server has a sink or has none, and only a CHANGE of a sink    *)
(* makes ubar ask for it; a sink that appears is announced as NEW, which   *)
(* is ignored.  The connection to the sound server may end, for good.      *)
(*                                                                         *)
(* Abstracted: drawing, clicks, what the values are (the volume is zero or *)
(* not), the polled values (CPU, memory, battery), one turn of the loop    *)
(* that serves several descriptors, here one turn for each, and several    *)
(* sinks at a time: ubar shows the one it was told of last, here there is  *)
(* only one.  Queries to the sound server are answered in order, hence one *)
(* after the other.                                                        *)
(***************************************************************************)
EXTENDS Naturals, FiniteSets

CONSTANTS
  Watched,    \* sources with a thread of their own: "network" and "display"
  MaxRetries  \* 3, audio_sink_info_cb

VARIABLES
  loop,        \* where main is
  served,      \* the source main has drained the pipe of
  resume,      \* where data_stop_monitors returns to
  term,        \* term_received
  monitors,    \* g_monitors_running
  wake,        \* the wake pipes hold a byte
  thread,      \* [Watched -> where the thread is]
  sock,        \* [Watched -> its socket holds an event]
  pipe,        \* [Source -> a byte is in the pipe to the loop]
  real,        \* [Source -> value]
  shown,       \* [Source -> value in State]
  sink,        \* the sound server has a sink
  audio,       \* where the exchange with the sound server is
  sink_event,  \* a change was announced: of the sink, or of one that is gone
  reply,       \* the volume on its way to audio_sink_info_cb
  g_vol_pct,
  retries,     \* audio_init_retries
  unheard      \* auxiliary: nothing was said of the sink since it appeared

mainVars == <<loop, served, resume, term, monitors, wake>>
threadVars == <<thread, sock>>
audioVars == <<audio, sink_event, reply, g_vol_pct, retries>>
sinkVars == <<sink, unheard>>
vars == <<mainVars, threadVars, pipe, real, shown, sinkVars, audioVars>>

Source == Watched \cup {"audio"}
Value == {0, 1}

Init ==
  /\ loop = "start" /\ served = "audio" /\ resume = "top"
  /\ term = FALSE
  /\ monitors = FALSE /\ wake = FALSE
  /\ thread = [m \in Watched |-> "none"] /\ sock = [m \in Watched |-> FALSE]
  /\ pipe = [s \in Source |-> FALSE]
  /\ real \in [Source -> Value] /\ shown = [s \in Source |-> 0]
  /\ sink \in BOOLEAN /\ unheard = FALSE
  /\ audio = "none" /\ sink_event = "none" /\ reply = 0
  /\ g_vol_pct = 0 /\ retries = 0

----------------------------------------------------------------------------
(* main *)

Main(from, to) == loop = from /\ loop' = to

\* data_start_monitors: without its pipes nothing starts; if one thread cannot
\* be created the others are stopped again.
StartMonitors ==
  /\ loop = "start"
  /\ \/ /\ loop' = "top"
        /\ UNCHANGED <<monitors, thread, audio>>
     \/ \E started \in SUBSET Source :
          /\ monitors' = TRUE
          /\ thread' = [m \in Watched |-> IF m \in started THEN "new" ELSE "none"]
          /\ audio' = IF "audio" \in started THEN "new" ELSE "none"
          /\ loop' = IF started = Source THEN "top" ELSE "stop"
  /\ UNCHANGED <<served, resume, term, wake, sock, pipe, real, shown, sinkVars,
                 sink_event, reply, g_vol_pct, retries>>

\* The condition of the loop is read here; a signal that comes after it and
\* before poll is not noticed by this turn.
Top ==
  /\ Main("top", IF term THEN "stop" ELSE "turn")
  /\ resume' = IF term THEN "end" ELSE resume
  /\ UNCHANGED <<served, term, monitors, wake, threadVars, pipe, real,
                 shown, sinkVars, audioVars>>

EnterPoll ==
  /\ Main("turn", "poll")
  /\ UNCHANGED <<served, resume, term, monitors, wake, threadVars, pipe,
                 real, shown, sinkVars, audioVars>>

Tick_never == FALSE /\ UNCHANGED vars

\* The one-second timer makes poll return, whatever else happens.
Tick ==
  /\ Main("poll", "top")
  /\ UNCHANGED <<served, resume, term, monitors, wake, threadVars, pipe,
                 real, shown, sinkVars, audioVars>>

\* The pipe is drained before the value is read.
Drain ==
  /\ Main("poll", "sync")
  /\ \E s \in Source :
       /\ pipe[s] /\ served' = s
       /\ pipe' = [pipe EXCEPT ![s] = FALSE]
  /\ UNCHANGED <<resume, term, monitors, wake, threadVars, real, shown,
                 sinkVars, audioVars>>

\* data_sync_audio, data_sync_network, data_sync_display
Current(s) == IF s = "audio" THEN g_vol_pct ELSE real[s]

Sync ==
  /\ Main("sync", "top")
  /\ shown' = [shown EXCEPT ![served] = Current(served)]
  /\ served' = "audio"
  /\ UNCHANGED <<resume, term, monitors, wake, threadVars, pipe, real,
                 sinkVars, audioVars>>

\* The compositor is gone, at any moment: the loop is left, and ubar executed anew at the end.
HangUp ==
  /\ Main("poll", "stop") /\ resume' = "end"
  /\ UNCHANGED <<served, term, monitors, wake, threadVars, pipe, real,
                 shown, sinkVars, audioVars>>

\* layer_surface_closed ends the program for good.
Close ==
  /\ Main("poll", "stop") /\ resume' = "closed"
  /\ UNCHANGED <<served, term, monitors, wake, threadVars, pipe, real,
                 shown, sinkVars, audioVars>>

\* data_stop_monitors
Stop ==
  /\ Main("stop", "join")
  /\ monitors' = FALSE /\ wake' = TRUE
  /\ UNCHANGED <<served, resume, term, threadVars, pipe, real, shown,
                 sinkVars, audioVars>>

\* join_bounded waits 200 ms for a thread at most, finished or not; then the
\* wake pipes are closed.  At the end the flag is read once more.
Join ==
  /\ Main("join", CASE resume = "top" -> "top"
                    [] term \/ resume = "closed" -> "gone"
                    [] OTHER -> "leave")
  /\ wake' = FALSE
  /\ UNCHANGED <<served, resume, term, monitors, threadVars, pipe, real,
                 shown, sinkVars, audioVars>>

\* execvp, for a compositor that was lost.
Exec ==
  /\ Main("leave", "exec")
  /\ UNCHANGED <<served, resume, term, monitors, wake, threadVars, pipe, real,
                 shown, sinkVars, audioVars>>

----------------------------------------------------------------------------
(* network_monitor_thread and display_monitor_thread *)

Step(m, from, to) == thread[m] = from /\ thread' = [thread EXCEPT ![m] = to]

Subscribe_quiet(m) ==
  /\ Step(m, "new", "poll") \/ Step(m, "new", "none")
  /\ UNCHANGED <<mainVars, sock, pipe, real, shown, sinkVars, audioVars>>

\* From here on the socket receives events; that may fail.
Subscribe(m) ==
  /\ Step(m, "new", "note") \/ Step(m, "new", "none")
  /\ UNCHANGED <<mainVars, sock, pipe, real, shown, sinkVars, audioVars>>

\* One byte for the loop, also for the initial state.
Notify(m) ==
  /\ Step(m, "note", "poll")
  /\ pipe' = [pipe EXCEPT ![m] = @ \/ monitors]
  /\ UNCHANGED <<mainVars, sock, real, shown, sinkVars, audioVars>>

Receive(m) ==
  /\ sock[m] /\ ~wake
  /\ Step(m, "poll", "note")
  /\ sock' = [sock EXCEPT ![m] = FALSE]
  /\ UNCHANGED <<mainVars, pipe, real, shown, sinkVars, audioVars>>

\* Woken up by the pipe, or stopped by the condition of the loop.
Leave(m) ==
  /\ wake \/ ~monitors
  /\ Step(m, "poll", "none")
  /\ UNCHANGED <<mainVars, sock, pipe, real, shown, sinkVars, audioVars>>

Watch(m) == Subscribe(m) \/ Notify(m) \/ Receive(m) \/ Leave(m)

----------------------------------------------------------------------------
(* PulseAudio's thread: each exchange is a request, an answer with the sink  *)
(* or without, and the end of the list.                                     *)

\* Asked for the default sink, for the sink by its index, and for one that went
\* by its index.
Asked == {"asked", "indexed", "stale"}

Exchange(from, to) == audio = from /\ audio' = to

\* audio_context_state_cb subscribes and asks for the first time.
Connect ==
  /\ Exchange("new", "asked")
  /\ UNCHANGED <<mainVars, threadVars, pipe, real, shown, sinkVars, sink_event,
                 reply, g_vol_pct, retries>>

\* The connection fails or ends; nobody opens another.  Answers are lost with it.
Lose ==
  /\ audio \in {"new", "idle", "told"} \cup Asked /\ audio' = "lost"
  /\ sink_event' = "none" /\ reply' = 0
  /\ UNCHANGED <<mainVars, threadVars, pipe, real, shown, sinkVars, g_vol_pct,
                 retries>>

\* audio_subscription_cb asks for the sink of the event.
Ask ==
  /\ \/ sink_event = "sink" /\ Exchange("idle", "indexed")
     \/ sink_event = "gone" /\ Exchange("idle", "stale")
  /\ sink_event' = "none"
  /\ UNCHANGED <<mainVars, threadVars, pipe, real, shown, sinkVars, reply,
                 g_vol_pct, retries>>

\* With the sink, or with the end of the list alone.
Answer ==
  /\ \/ /\ sink
        /\ Exchange("asked", "told") \/ Exchange("indexed", "told")
        /\ reply' = real["audio"] /\ unheard' = FALSE
     \/ /\ Exchange("stale", "eol") \/ (~sink /\ Exchange("asked", "eol"))
        /\ UNCHANGED <<reply, unheard>>
  /\ UNCHANGED <<mainVars, threadVars, pipe, real, shown, sink, sink_event,
                 g_vol_pct, retries>>

\* audio_sink_info_cb with a sink: the value first, the byte after it.
Info ==
  /\ Exchange("told", IF reply # g_vol_pct THEN "note" ELSE "eol")
  /\ g_vol_pct' = reply /\ reply' = 0 /\ retries' = 0
  /\ UNCHANGED <<mainVars, threadVars, pipe, real, shown, sinkVars, sink_event>>

NotifyAudio ==
  /\ Exchange("note", "eol")
  /\ pipe' = [pipe EXCEPT !["audio"] = @ \/ monitors]
  /\ UNCHANGED <<mainVars, threadVars, real, shown, sinkVars, sink_event, reply,
                 g_vol_pct, retries>>

\* At the end of the list a volume of zero is taken for a sink that is not
\* there yet.  The retries follow each other at once.
EndOfList ==
  /\ IF g_vol_pct = 0 /\ monitors /\ retries < MaxRetries
     THEN Exchange("eol", "asked") /\ retries' = retries + 1
     ELSE Exchange("eol", "idle") /\ UNCHANGED retries
  /\ UNCHANGED <<mainVars, threadVars, pipe, real, shown, sinkVars, sink_event,
                 reply, g_vol_pct>>

\* audio_monitor_thread stops PulseAudio's thread, if that does not hang.
StopAudio ==
  /\ ~monitors
  /\ audio \in {"new", "idle", "told", "lost"} \cup Asked /\ audio' = "none"
  /\ UNCHANGED <<mainVars, threadVars, pipe, real, shown, sinkVars, sink_event,
                 reply, g_vol_pct, retries>>

Audio ==
  Connect \/ Ask \/ Answer \/ Info \/ NotifyAudio \/ EndOfList \/ StopAudio

----------------------------------------------------------------------------
(* The world. *)

\* ubar is subscribed to the sound server.
Subscribed == audio \notin {"none", "new", "lost"}

\* The kernel and the sound server tell whoever has subscribed.
Change(s) ==
  /\ real' = [real EXCEPT ![s] = 1 - @]
  /\ IF s = "audio"
     THEN /\ sink
          /\ IF Subscribed THEN sink_event' = "sink" /\ unheard' = FALSE
             ELSE UNCHANGED <<sink_event, unheard>>
          /\ UNCHANGED sock
     ELSE /\ sock' = [sock EXCEPT ![s] = @ \/ thread[s] \in {"note", "poll"}]
          /\ UNCHANGED <<sink_event, unheard>>
  /\ UNCHANGED <<mainVars, thread, pipe, shown, sink, audio, reply, g_vol_pct,
                 retries>>

\* A sink appears with a volume of its own; its NEW event is not one that
\* audio_subscription_cb asks about.
SinkAppears ==
  /\ ~sink /\ sink' = TRUE /\ unheard' = TRUE
  /\ \E v \in Value : real' = [real EXCEPT !["audio"] = v]
  /\ UNCHANGED <<mainVars, threadVars, pipe, shown, audioVars>>

\* It goes, and what was asked or announced by its index is about nothing.
SinkGoes ==
  /\ sink /\ sink' = FALSE /\ unheard' = FALSE
  /\ sink_event' = IF sink_event = "sink" THEN "gone" ELSE sink_event
  /\ audio' = IF audio = "indexed" THEN "stale" ELSE audio
  /\ UNCHANGED <<mainVars, threadVars, pipe, real, shown, reply, g_vol_pct,
                 retries>>

\* SIGTERM: a poll that is under way returns.
Signal ==
  /\ ~term /\ term' = TRUE
  /\ loop' = IF loop = "poll" THEN "top" ELSE loop
  /\ UNCHANGED <<served, resume, monitors, wake, threadVars, pipe, real,
                 shown, sinkVars, audioVars>>

Loop ==
  StartMonitors \/ Top \/ EnterPoll \/ Tick \/ Drain \/ Sync \/ Stop \/ Join
    \/ Exec

Running == loop \notin {"gone", "exec"}

\* The process is over, and with it its threads.
Over == ~Running /\ UNCHANGED vars

Next ==
  \/ /\ Running
     /\ \/ Loop \/ HangUp \/ Close \/ Audio \/ \E m \in Watched : Watch(m)
        \/ \E s \in Source : Change(s)
        \/ Lose \/ SinkAppears \/ SinkGoes \/ Signal
  \/ Over

\* Of the process only its main thread: the monitors may be slow or hang, and
\* nobody else ends the loop.
Spec == Init /\ [][Next]_vars /\ WF_vars(Running /\ Loop)

----------------------------------------------------------------------------
(* Properties. *)

TypeOK ==
  /\ loop \in {"start", "top", "turn", "poll", "sync", "stop", "join", "leave",
              "gone", "exec"}
  /\ served \in Source /\ resume \in {"top", "end", "closed"}
  /\ thread \in [Watched -> {"none", "new", "note", "poll"}]
  /\ sock \in [Watched -> BOOLEAN] /\ pipe \in [Source -> BOOLEAN]
  /\ real \in [Source -> Value] /\ shown \in [Source -> Value]
  /\ sink \in BOOLEAN /\ unheard \in BOOLEAN
  /\ audio \in {"none", "new", "idle", "told", "note", "eol", "lost"} \cup Asked
  /\ sink_event \in {"none", "sink", "gone"}
  /\ reply \in Value /\ g_vol_pct \in Value /\ retries \in 0 .. MaxRetries
  /\ term \in BOOLEAN /\ monitors \in BOOLEAN /\ wake \in BOOLEAN

OnItsWay(s) ==
  \/ pipe[s]
  \/ loop = "sync" /\ served = s
  \/ IF s = "audio"
     THEN sink_event = "sink" \/ audio \in {"asked", "indexed", "told", "note"}
     ELSE sock[s] \/ thread[s] = "note"

\* There is something to show and somebody who has been told to watch it: of the
\* sound server a sink that ubar has heard of, over a connection that stands.
Watching(s) ==
  monitors /\ IF s = "audio" THEN sink /\ ~unheard /\ Subscribed
              ELSE thread[s] \in {"note", "poll"}

\* No change is lost between the threads: while a source is watched, the bar
\* shows its value or a step is still to come that makes the loop read it
\* again, however the changes, the threads, the callbacks, a sink that goes in
\* the middle of a query and the draining of the pipes interleave (data.c:462-556,
\* 757-821, 867-926, ubar.c:424-443).  Two things are not watched, for the code
\* does not: a sink that has appeared since the last query and has neither been
\* changed nor been asked about (data.c:543-544: "PipeWire may not have sinks ready
\* at boot", and the retries that are made for it follow each other at once), and
\* the sound server once its connection has ended (data.c:600-603).
NoChangeIsLost ==
  \A s \in Source : Watching(s) => (shown[s] = real[s] \/ OnItsWay(s))

\* SIGTERM ends the bar, whenever it comes until the last look at its flag, also
\* between the test of the flag and the poll, and though a monitor thread may
\* never finish (ubar.c:20-42, 486-494, data.c:1039-1073).  One that comes after
\* that look, before the execvp, is lost.
TermEndsBar == (term /\ loop \notin {"leave", "exec"}) ~> loop = "gone"
============================================================================
