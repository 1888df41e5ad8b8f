------------------------------ MODULE Keyboard ------------------------------
(***************************************************************************)
(* One keyboard: key bindings, their repeat timer, the session lock's      *)
(* effect on both, and what the client with the keyboard focus is told     *)
(* about keys (input/input.c).                                             *)
(*                                                                         *)
(* wlroots updates the pressed keycodes, emits the key event and then the  *)
(* modifier event, so the three are one step.  A client that gets the      *)
(* focus is told which keys are down; one that is focused is told of the   *)
(* presses and releases that are forwarded.                                *)
(*                                                                         *)
(* Abstracted: Ctrl, Alt and Shift, VT switches, the bindings without a    *)
(* modifier and key symbols (a key is bound with the logo key, or is not), *)
(* and time: an armed timer may fire at any moment.                        *)
(***************************************************************************)
EXTENDS Naturals, FiniteSets

CONSTANTS
  Key,   \* the keys other than the logo key
  Bound, \* those that keys[] binds together with the logo key
  Logo,
  NoKey

VARIABLES
  attached,        \* there is a keyboard
  held,           \* the keys that are down
  armed,          \* keyboard->repeat_timer is armed
  repeat_keycode,
  locked,         \* server->locked
  told            \* the keys the focused client believes to be down

vars == <<attached, held, armed, repeat_keycode, locked, told>>

TypeOK ==
  /\ attached \in BOOLEAN /\ armed \in BOOLEAN /\ locked \in BOOLEAN
  /\ held \subseteq Key \cup {Logo} /\ told \subseteq Key \cup {Logo}
  /\ repeat_keycode \in Key \cup {NoKey}

Init ==
  /\ attached = FALSE /\ held = {}
  /\ armed = FALSE /\ repeat_keycode = NoKey
  /\ locked = FALSE /\ told = {}

\* A binding may move the focus: whoever has it now was told the keys on entry.
MayMoveFocus(down) == told' \in {told, down, {}}

----------------------------------------------------------------------------
(* server_new_keyboard, keyboard_handle_destroy; wlroots releases the keys   *)
(* of a keyboard that goes.                                                *)

Plug ==
  /\ ~attached /\ attached' = TRUE
  /\ armed' = FALSE /\ repeat_keycode' = NoKey
  /\ UNCHANGED <<held, locked, told>>

Unplug ==
  /\ attached /\ attached' = FALSE
  /\ held' = {} /\ told' = {}
  /\ armed' = FALSE /\ repeat_keycode' = NoKey
  /\ UNCHANGED locked

\* keyboard_handle_key: while locked, or without the logo key, or for a key
\* that is not bound, the press is forwarded; else the binding runs, the press
\* stays with the compositor and the repeat timer starts.
Press(k) ==
  /\ attached /\ k \notin held
  /\ held' = held \cup {k}
  /\ IF ~locked /\ Logo \in held /\ k \in Bound
     THEN /\ MayMoveFocus(held')
          /\ armed' = TRUE /\ repeat_keycode' = k
     ELSE /\ told' = told \cup {k}
          /\ UNCHANGED <<armed, repeat_keycode>>
  /\ UNCHANGED <<attached, locked>>

Release_swallowed(k) ==
  /\ k \in held
  /\ held' = held \ {k}
  /\ told' = IF armed /\ k = repeat_keycode THEN told ELSE told \ {k}
  /\ armed' = (armed /\ (locked \/ k # repeat_keycode))
  /\ UNCHANGED <<attached, repeat_keycode, locked>>

\* The release of the repeated key stops the timer, but a locked session
\* returns before that; a release is always forwarded.
Release(k) ==
  /\ k \in held
  /\ held' = held \ {k}
  /\ told' = told \ {k}
  /\ armed' = (armed /\ (locked \/ k # repeat_keycode))
  /\ UNCHANGED <<attached, repeat_keycode, locked>>

\* The key event of the logo key is forwarded, and its modifier event stops
\* the timer, locked or not.
PressLogo ==
  /\ attached /\ Logo \notin held
  /\ held' = held \cup {Logo} /\ told' = told \cup {Logo}
  /\ UNCHANGED <<attached, armed, repeat_keycode, locked>>

ReleaseLogo ==
  /\ Logo \in held
  /\ held' = held \ {Logo} /\ told' = told \ {Logo}
  /\ armed' = FALSE
  /\ UNCHANGED <<attached, repeat_keycode, locked>>

\* keyboard_repeat_handler: a locked session and a released logo key end the
\* repetition, otherwise the binding runs and the timer is armed again.
RunsBinding_locked == armed /\ Logo \in held
RunsBinding == armed /\ ~locked /\ Logo \in held

TimerFires_rearms ==
  /\ armed
  /\ IF RunsBinding THEN MayMoveFocus(held) ELSE UNCHANGED told
  /\ UNCHANGED <<attached, held, armed, repeat_keycode, locked>>

TimerFires ==
  /\ armed
  /\ armed' = RunsBinding
  /\ IF RunsBinding THEN MayMoveFocus(held) ELSE UNCHANGED told
  /\ UNCHANGED <<attached, held, repeat_keycode, locked>>

----------------------------------------------------------------------------
(* The rest of the compositor. *)

FocusMoves ==
  /\ MayMoveFocus(held)
  /\ UNCHANGED <<attached, held, armed, repeat_keycode, locked>>

\* handle_new_lock clears the keyboard focus.
Lock ==
  /\ ~locked /\ locked' = TRUE
  /\ told' = {}
  /\ UNCHANGED <<attached, held, armed, repeat_keycode>>

\* handle_lock_unlock.  A session stays locked for longer than the quarter of
\* a second a repeat timer may be armed for (KEY_REPEAT_DELAY).
Unlock ==
  /\ locked /\ locked' = FALSE
  /\ ~armed
  /\ told' \in {held, {}}
  /\ UNCHANGED <<attached, held, armed, repeat_keycode>>

Next ==
  \/ Plug \/ Unplug
  \/ \E k \in Key : Press(k) \/ Release(k)
  \/ PressLogo \/ ReleaseLogo
  \/ TimerFires
  \/ FocusMoves \/ Lock \/ Unlock

\* The event loop dispatches an armed timer.
Spec == Init /\ [][Next]_vars /\ WF_vars(TimerFires)

----------------------------------------------------------------------------
\* A binding is repeated only for a key that is still down, together with the
\* logo key, although a lock swallows the release that should stop the timer
\* and keys are pressed and released in any order (input.c:125-163, 219-259).
RepeatsWhatIsHeld == RunsBinding => repeat_keycode \in held

\* No client is left with a key that it believes to be down: a release reaches
\* the focused client even when the press was a binding, was pressed before
\* the focus came, or before a lock (input.c:200-269).
NoStuckKey == told \subseteq held

\* A timer whose key was released during a lock does not stay armed.
RepeatsInVain == armed /\ repeat_keycode \notin held
RepeatEnds == RepeatsInVain ~> ~RepeatsInVain
============================================================================
