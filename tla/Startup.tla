------------------------------ MODULE Startup ------------------------------
(***************************************************************************)
(* Setting the compositor up and taking it down (core/server.c): the       *)
(* objects server_init creates in order, the listeners it puts on their    *)
(* signals, the ways out when a step fails, and server_finish.  The three  *)
(* are separate lists of calls in the source and are kept as lists here.   *)
(*                                                                         *)
(* Outputs, input devices and X11 windows appear only once the backend     *)
(* runs (main.c); clients come and go and are destroyed first of all.      *)
(*                                                                         *)
(* Abstracted: what an object does, the environment variables, objects     *)
(* that have no listener and live exactly as long as the display, and the  *)
(* configuration, which the returns before the label err do not free.      *)
(***************************************************************************)
EXTENDS Naturals, Sequences

VARIABLES
  path,   \* the list being carried out, "run" or "over"
  pc,     \* the call within it
  alive,  \* objects that exist
  known,  \* objects server has a pointer to
  hooks,  \* <<listener, object>>: linked into a signal of the object
  devices \* outputs, keyboards and X11 windows that exist

vars == <<path, pc, alive, known, hooks, devices>>

\* The calls.  Creating an object may fail: to another list, or "on".
Make(o, fails) == [do |-> "make", what |-> o, fails |-> fails]
Create(o) == Make(o, {})
Hook(ls, o) == [do |-> "hook", what |-> o, listeners |-> ls]
Unhook(ls, o) == [do |-> "unhook", what |-> o, listeners |-> ls]
Destroy(o) == [do |-> "destroy", what |-> o]
Clear(o) == [do |-> "clear", what |-> o]      \* ... and set the pointer NULL

SessionListeners == {"session_active", "g_session_active_sentinel"}

\* Everything up to the allocator: each failure returns by itself.
Foundation ==
  << Make("display", {"over"}),
     Make("backend", {"backend"}),
     Make("session", {"on"}),
     Hook(SessionListeners, "session"),
     Make("renderer", {"renderer"}),
     Hook({"renderer_lost"}, "renderer"),
     Make("allocator", {"allocator"}) >>

\* The globals of the protocols, the layout and the scene.
Shells ==
  << Make("fractional_scale_manager", {"err"}),
     Make("viewporter", {"err"}),
     Make("transient_seat_manager", {"on"}),
     Hook({"transient_seat_create"}, "transient_seat_manager"),
     Create("output_layout"),
     Hook({"output_layout_change"}, "output_layout"),
     Hook({"new_output"}, "backend"),
     Create("scene"),
     Create("xdg_shell"),
     Hook({"new_xdg_toplevel", "new_xdg_popup"}, "xdg_shell"),
     Make("xdg_decoration_manager", {"on"}),
     Hook({"new_toplevel_decoration"}, "xdg_decoration_manager"),
     Create("output_manager_v1"),
     Hook({"output_manager_apply", "output_manager_test"},
          "output_manager_v1") >>

\* Cursor and seat.
Inputs ==
  << Create("cursor"),
     Create("cursor_mgr"),
     Hook({"motion", "motion_absolute", "button", "axis", "frame",
           "swipe_begin", "swipe_update", "swipe_end", "pinch_begin",
           "pinch_update", "pinch_end", "hold_begin", "hold_end"}, "cursor"),
     Hook({"new_input"}, "backend"),
     Create("seat"),
     Hook({"request_cursor", "pointer_focus_change", "request_set_selection",
           "request_set_primary_selection"}, "seat"),
     Make("cursor_shape_manager", {"on"}),
     Hook({"cursor_shape_request"}, "cursor_shape_manager") >>

\* The compositor's own protocols, which have files of their own.
Protocols ==
  << Make("layer_shell", {"err"}),
     Hook({"new_layer_surface"}, "layer_shell"),
     Make("bar_manager", {"err"}),
     Make("idle_inhibit", {"err"}),
     Hook({"new_inhibitor"}, "idle_inhibit"),
     Make("session_lock", {"err"}),
     Hook({"new_lock", "manager_destroy"}, "session_lock") >>

\* Capture, the socket and XWayland, which is only asked for with -x.
Captures ==
  << Make("screencopy_manager", {"err"}),
     Make("image_copy_capture_manager", {"err"}),
     Hook({"new_capture_session"}, "image_copy_capture_manager"),
     Make("export_dmabuf_manager", {"err"}),
     Make("capture_source_manager", {"on"}),
     Hook({"new_foreign_toplevel_capture_request"},
          "capture_source_manager"),
     Make("socket", {"err"}),
     Make("xwayland", {"on", "err"}),
     Hook({"xwayland_surface", "xwayland_ready"}, "xwayland") >>

server_init == Foundation \o Shells \o Inputs \o Protocols \o Captures

\* server_init: the returns of its own and the label err.
NoBackend == << Destroy("display") >>
NoRenderer ==
  << Destroy("backend"),
     Unhook(SessionListeners, "session"), Clear("session"),
     Destroy("display") >>
NoAllocator ==
  << Unhook({"renderer_lost"}, "renderer"),
     Destroy("renderer") >> \o NoRenderer

DestroyTransients == Unhook({"seat_destroy"}, "transient_seat")

\* layer_shell_destroy, session_lock_destroy, idle_inhibit_destroy.
layer_shell_destroy == Unhook({"new_layer_surface"}, "layer_shell")
session_lock_destroy ==
  Unhook({"new_lock", "manager_destroy"}, "session_lock")
idle_inhibit_destroy == Unhook({"new_inhibitor"}, "idle_inhibit")

Err ==
  << Unhook({"xwayland_surface", "xwayland_ready"}, "xwayland"),
     Clear("xwayland"),
     DestroyTransients, Clear("transient_seat"),
     Clear("bar_manager"),
     session_lock_destroy, idle_inhibit_destroy, layer_shell_destroy,
     Destroy("scene"), Destroy("cursor_mgr"), Destroy("cursor"),
     Destroy("allocator"), Destroy("renderer"), Destroy("backend"),
     Unhook(SessionListeners, "session"), Clear("session"),
     Destroy("seat"), Destroy("output_layout"), Destroy("display") >>

\* server_finish: the listeners ...
Unhooks ==
  << layer_shell_destroy, idle_inhibit_destroy, session_lock_destroy,
     Clear("bar_manager"),
     Unhook({"new_xdg_toplevel", "new_xdg_popup"}, "xdg_shell"),
     Unhook({"new_toplevel_decoration"}, "xdg_decoration_manager"),
     Unhook({"transient_seat_create"}, "transient_seat_manager"),
     DestroyTransients, Clear("transient_seat"),
     Unhook({"new_foreign_toplevel_capture_request"},
            "capture_source_manager"),
     Unhook({"new_capture_session"}, "image_copy_capture_manager"),
     Unhook({"xwayland_surface", "xwayland_ready"}, "xwayland"),
     Unhook({"motion", "motion_absolute", "button", "axis", "frame"},
            "cursor"),
     Unhook({"swipe_begin", "swipe_update", "swipe_end", "pinch_begin",
             "pinch_update", "pinch_end", "hold_begin", "hold_end"},
            "cursor"),
     Unhook({"cursor_shape_request"}, "cursor_shape_manager"),
     Unhook({"new_input"}, "backend"),
     Unhook({"request_cursor", "pointer_focus_change",
             "request_set_selection", "request_set_primary_selection"},
            "seat"),
     Unhook({"new_output"}, "backend"),
     Unhook({"output_layout_change"}, "output_layout"),
     Unhook({"output_manager_apply", "output_manager_test"},
            "output_manager_v1"),
     Unhook({"renderer_lost"}, "renderer"),
     Unhook(SessionListeners, "session") >>

Destroys_scene_first ==
  << Destroy("scene"), Destroy("backend"), Destroy("cursor_mgr"),
     Destroy("cursor"), Destroy("allocator"), Destroy("renderer"),
     Clear("xwayland"), Destroy("session"), Destroy("seat"),
     Destroy("output_layout"), Destroy("display") >>

\* ... and then the objects.
Destroys ==
  << Destroy("backend"), Destroy("scene"), Destroy("cursor_mgr"),
     Destroy("cursor"), Destroy("allocator"), Destroy("renderer"),
     Clear("xwayland"), Destroy("session"), Destroy("seat"),
     Destroy("output_layout"), Destroy("display") >>

server_finish == Unhooks \o Destroys

List(p) == CASE p = "init" -> server_init
             [] p = "backend" -> NoBackend
             [] p = "renderer" -> NoRenderer
             [] p = "allocator" -> NoAllocator
             [] p = "err" -> Err
             [] p = "finish" -> server_finish
             [] OTHER -> << >>

----------------------------------------------------------------------------
\* What libwayland destroys with the display: every global, and the socket.
Globals == { "fractional_scale_manager", "viewporter", "socket",
             "transient_seat_manager", "xdg_shell", "xdg_decoration_manager",
             "output_manager_v1", "cursor_shape_manager", "layer_shell",
             "idle_inhibit", "session_lock", "screencopy_manager",
             "image_copy_capture_manager", "export_dmabuf_manager",
             "capture_source_manager" }
DiesWith(o) == { o } \cup IF o = "display" THEN Globals ELSE { }

\* The devices whose destroy handlers run when o is destroyed.
Owned(o) == CASE o = "backend" -> {"output", "keyboard"}
              [] o = "xwayland" -> {"x11"}
              [] OTHER -> { }

\* The listener that makes a device known to the compositor.
Announced == [ output |-> <<"new_output", "backend">>,
               keyboard |-> <<"new_input", "backend">>,
               x11 |-> <<"xwayland_surface", "xwayland">> ]

Init ==
  /\ path = "init" /\ pc = 1
  /\ alive = {} /\ known = {} /\ hooks = {} /\ devices = {}

\* A list at its end: server_init returns true, every other one is the last.
Proceed(p) ==
  IF pc < Len(List(p)) THEN path' = p /\ pc' = pc + 1
  ELSE /\ path' = IF p = "init" THEN "start" ELSE "over"
       /\ pc' = 1

Call == List(path)[pc]
Running == path \notin {"start", "run", "over"}

Made ==
  /\ Call.do = "make"
  /\ Proceed(path)
  /\ alive' = alive \cup { Call.what }
  /\ known' = known \cup { Call.what }
  /\ UNCHANGED <<hooks, devices>>

\* A failure is passed over, or ends server_init by one of its ways out.
Failed ==
  /\ Call.do = "make"
  /\ \E f \in Call.fails :
       IF f = "on" THEN Proceed(path) ELSE path' = f /\ pc' = 1
  /\ UNCHANGED <<alive, known, hooks, devices>>

\* Optional objects are hooked, unhooked and destroyed under a test for NULL.
Hooked ==
  /\ Call.do = "hook"
  /\ hooks' = hooks \cup IF Call.what \in known
                          THEN Call.listeners \X { Call.what } ELSE {}
  /\ Proceed(path)
  /\ UNCHANGED <<alive, known, devices>>

Unhooked ==
  /\ Call.do = "unhook"
  /\ hooks' = hooks \ (Call.listeners \X { Call.what })
  /\ Proceed(path)
  /\ UNCHANGED <<alive, known, devices>>

Destroyed ==
  /\ Call.do \in {"destroy", "clear"}
  /\ IF Call.what \in known
     THEN /\ alive' = alive \ DiesWith(Call.what)
          /\ known' = IF Call.do = "clear" THEN known \ { Call.what }
                                           ELSE known
          /\ devices' = devices \ Owned(Call.what)
     ELSE UNCHANGED <<alive, known, devices>>
  /\ Proceed(path)
  /\ UNCHANGED hooks

\* main: a backend that does not start goes straight to server_finish.
BackendStart ==
  /\ path = "start"
  /\ path' \in {"run", "finish"} /\ pc' = 1
  /\ devices' = IF path' = "run" THEN {"output", "keyboard"} ELSE {}
  /\ UNCHANGED <<alive, known, hooks>>

\* While the loop runs devices come and go; each needs its listener.
NewDevice ==
  /\ path = "run"
  /\ \E d \in DOMAIN Announced :
       Announced[d] \in hooks /\ devices' = devices \cup { d }
  /\ UNCHANGED <<path, pc, alive, known, hooks>>

DeviceGone ==
  /\ path = "run"
  /\ \E d \in devices : devices' = devices \ { d }
  /\ UNCHANGED <<path, pc, alive, known, hooks>>

\* handle_transient_seat_create and, when its client leaves, the destroy.
TransientSeat ==
  /\ path = "run"
  /\ \/ /\ <<"transient_seat_create", "transient_seat_manager">> \in hooks
        /\ "transient_seat" \notin known
        /\ alive' = alive \cup {"transient_seat"}
        /\ known' = known \cup {"transient_seat"}
        /\ hooks' = hooks \cup { <<"seat_destroy", "transient_seat">> }
     \/ /\ "transient_seat" \in known
        /\ alive' = alive \ {"transient_seat"}
        /\ known' = known \ {"transient_seat"}
        /\ hooks' = hooks \ { <<"seat_destroy", "transient_seat">> }
  /\ UNCHANGED <<path, pc, devices>>

\* The event loop has returned.
Quit ==
  /\ path = "run" /\ path' = "finish" /\ pc' = 1
  /\ UNCHANGED <<alive, known, hooks, devices>>

Over == path = "over" /\ UNCHANGED vars

Next == \/ Running /\ (Made \/ Failed \/ Hooked \/ Unhooked \/ Destroyed)
        \/ BackendStart \/ NewDevice \/ DeviceGone \/ TransientSeat
        \/ Quit \/ Over

Spec == Init /\ [][Next]_vars

TypeOK ==
  /\ path \in {"init", "backend", "renderer", "allocator", "err", "start",
               "run", "finish", "over"}
  /\ pc \in 1 .. Len(server_init) + Len(server_finish)
  /\ devices \subseteq {"output", "keyboard", "x11"}

(***************************************************************************)
(* Before an object is destroyed every listener of the compositor is off   *)
(* its signals: the session's on every way out, as the comment on          *)
(* uwm_session_destroy asks, and all of them in server_finish.  The label  *)
(* err keeps the rest linked: it is excused here.                          *)
(***************************************************************************)
LeftLinked ==
  IF path = "err"
  THEN ({"renderer", "backend", "cursor", "seat", "output_layout"}
          \cup Globals) \ {"layer_shell", "idle_inhibit", "session_lock"}
  ELSE {}

NoListenerLeft ==
  \A h \in hooks' : h[2] \in alive \ alive' => h[2] \in LeftLinked

(***************************************************************************)
(* Outputs and keyboards that are there when the backend is destroyed run  *)
(* their destroy handlers, which take their layers out of the scene and    *)
(* send the layout on: server_finish keeps all of that until after the     *)
(* backend.  (X11 windows go with XWayland, which comes later: not asked.) *)
(***************************************************************************)
SceneStillThere ==
  (devices \ devices') \cap {"output", "keyboard"} # {} =>
    {"scene", "seat", "output_layout", "output_manager_v1", "display"}
      \subseteq alive'

(***************************************************************************)
(* No call of the set-up, of its failures or of the end frees what another *)
(* call, or the handler of an event it causes, uses afterwards.            *)
(***************************************************************************)
TearDownInOrder == [][NoListenerLeft /\ SceneStillThere]_vars
=============================================================================
