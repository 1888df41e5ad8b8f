--------------------------- MODULE XWindowsProofs ---------------------------
(***************************************************************************)
(* XPointersLive and FrameMarksFocus, for any X windows and any addresses  *)
(* of objects.  The invariant says of a set M of objects that all pointers *)
(* lead to it; between the steps of a handler M is not the set of mapped   *)
(* windows' objects, as when a window that stays mapped gets another       *)
(* object.  What it adds to the properties is that no list has an object   *)
(* twice, that an object in no list is fullscreen and was floating, so     *)
(* that it comes back to a list, and that a window and its object name     *)
(* each other.                                                             *)
(***************************************************************************)
EXTENDS XWindows, Lemmas, TLAPS

\* None is not an X window and not an address.
Constants == None \notin XSurface \cup Object

\* The objects of the windows in these stages.
Of(d, stages) == {d.data[s] : s \in {t \in XSurface : d.stage[t] \in stages}}

\* A window and its object name each other; one that is gone has none.
Named(d) ==
  /\ \A s \in XSurface :
       /\ d.stage[s] = "gone" => d.data[s] = None
       /\ d.stage[s] # "gone" => d.data[s] \in Object /\ d.surface[d.data[s]] = s
  /\ \A o \in Live(d) : d.data[d.surface[o]] = o

\* Where pointers lead; an object is in a list, unless it is one of N, or was until
\* it was fullscreen.
Pointed(d, M, N) ==
  /\ {d.focused, d.last_focused, d.grabbed} \subseteq M \cup {None}
  /\ d.fullscreen_window \in d.fullscreen \cup {None}
  /\ Listed(d) \cup d.leaf \cup d.handle \cup d.fullscreen \subseteq M
  /\ M \ (Listed(d) \cup N) \subseteq d.fullscreen \cap d.saved_floating

\* The keyboard is on the focused window or on none.
KeyboardOn(d) ==
  d.keyboard # None => d.focused # None /\ d.surface[d.focused] = d.keyboard

\* Between the steps of a handler the keyboard may still be on a window that went.
Nearly(d, M, N) ==
  /\ d \in Desk /\ IsInjective(d.toplevels) /\ IsInjective(d.floats)
  /\ Pointed(d, M, N)

Good(d, M) == Nearly(d, M, {}) /\ KeyboardOn(d)

\* Frames are where they should be, while they are seen.
Framed(d, M) ==
  d.fullscreen = {} =>
    \A o \in (d.border_shown \cap M) \ d.disabled : o = d.focused /\ ~ IsMenu(d, o)

\* All of it, of one state.
Right(d) ==
  LET M == Of(d, {"mapped"})
  IN /\ Named(d) /\ Good(d, M) /\ Framed(d, M)
     /\ d.listens = Of(d, {"associated", "mapped"})

\* The inductive invariant.
Inv == Right(xdesk)

\* u is d with o in front of one of its lists.
Linked(u, d, o) == u \in {LinkTiled(d, o), LinkFloating(d, o)}

\* The X windows and their objects are the same.
SameWindows(e, d) ==
  /\ e.stage = d.stage /\ e.redirect = d.redirect /\ e.data = d.data
  /\ e.surface = d.surface /\ e.listens = d.listens

----------------------------------------------------------------------------
(* Lists. *)

\* u is d without o in its lists.
Unlinked(u, d, o) ==
  /\ u = [d EXCEPT !.toplevels = u.toplevels, !.floats = u.floats]
  /\ u \in Desk /\ IsInjective(u.toplevels) /\ IsInjective(u.floats)
  /\ ToSet(u.toplevels) = ToSet(d.toplevels) \ {o}
  /\ ToSet(u.floats) = ToSet(d.floats) \ {o}

\* The lists without an object.
LEMMA UnlinkLists ==
  ASSUME NEW d \in Desk, IsInjective(d.toplevels), IsInjective(d.floats), NEW o \in Object
  PROVE  Unlinked(Unlink(d, o), d, o)
<1> DEFINE ts == RemoveFirst(d.toplevels, o)
           fs == RemoveFirst(d.floats, o)
<1>1. d.toplevels \in Seq(Object) /\ d.floats \in Seq(Object)
  BY DEF Desk
<1>2. /\ ts \in Seq(Object) /\ IsInjective(ts) /\ ToSet(ts) = ToSet(d.toplevels) \ {o}
      /\ fs \in Seq(Object) /\ IsInjective(fs) /\ ToSet(fs) = ToSet(d.floats) \ {o}
  BY <1>1, TakeOut
<1>3. Unlink(d, o) = [d EXCEPT !.toplevels = ts, !.floats = fs]
  BY DEF Unlink
<1> DEFINE u == Unlink(d, o)
<1> HIDE DEF ts, fs, u
<1>4. u = [d EXCEPT !.toplevels = ts, !.floats = fs]
  BY <1>3 DEF u
<1>5. u.toplevels = ts /\ u.floats = fs
  BY <1>4 DEF Desk
<1>6. u \in Desk
  BY <1>2, <1>4 DEF Desk
<1>7. Unlinked(u, d, o)
  BY <1>2, <1>4, <1>5, <1>6 DEF Unlinked
<1> QED
  BY <1>7 DEF u

\* An object put in front of one of them.
LEMMA LinkLists ==
  ASSUME NEW d \in Desk, IsInjective(d.toplevels), IsInjective(d.floats), NEW o \in Object,
         NEW u, Linked(u, d, o)
  PROVE  /\ u = [d EXCEPT !.toplevels = u.toplevels, !.floats = u.floats]
         /\ u \in Desk /\ IsInjective(u.toplevels) /\ IsInjective(u.floats)
         /\ Listed(u) = Listed(d) \cup {o}
<1> DEFINE r == Unlink(d, o)
           ts == <<o>> \o r.toplevels
           fs == <<o>> \o r.floats
<1>1. /\ r = [d EXCEPT !.toplevels = r.toplevels, !.floats = r.floats]
      /\ r \in Desk /\ IsInjective(r.toplevels) /\ IsInjective(r.floats)
      /\ ToSet(r.toplevels) = ToSet(d.toplevels) \ {o}
      /\ ToSet(r.floats) = ToSet(d.floats) \ {o}
  <2>1. Unlinked(r, d, o)
    BY UnlinkLists
  <2> HIDE DEF r
  <2> QED
    BY <2>1 DEF Unlinked
<1>2. u \in {[r EXCEPT !.toplevels = ts], [r EXCEPT !.floats = fs]}
  BY DEF Linked, LinkTiled, LinkFloating
<1> HIDE DEF r
<1>3. /\ ts \in Seq(Object) /\ IsInjective(ts) /\ ToSet(ts) = (ToSet(d.toplevels) \ {o}) \cup {o}
      /\ fs \in Seq(Object) /\ IsInjective(fs) /\ ToSet(fs) = (ToSet(d.floats) \ {o}) \cup {o}
  <2>1. /\ r.toplevels \in Seq(Object) /\ o \notin ToSet(r.toplevels)
        /\ r.floats \in Seq(Object) /\ o \notin ToSet(r.floats)
    BY <1>1 DEF Desk
  <2> QED
    BY <1>1, <2>1, PutInFront
<1> HIDE DEF ts, fs
<1>4. CASE u = [r EXCEPT !.toplevels = ts]
  <2>1. u \in Desk /\ u.toplevels = ts /\ u.floats = r.floats
    BY <1>1, <1>3, <1>4 DEF Desk
  <2>2. u = [d EXCEPT !.toplevels = u.toplevels, !.floats = u.floats]
    BY <1>1, <1>4, <2>1 DEF Desk
  <2> QED
    BY <1>1, <1>3, <2>1, <2>2 DEF Listed
<1>5. CASE u = [r EXCEPT !.floats = fs]
  <2>1. u \in Desk /\ u.floats = fs /\ u.toplevels = r.toplevels
    BY <1>1, <1>3, <1>5 DEF Desk
  <2>2. u = [d EXCEPT !.toplevels = u.toplevels, !.floats = u.floats]
    BY <1>1, <1>5, <2>1 DEF Desk
  <2> QED
    BY <1>1, <1>3, <2>1, <2>2 DEF Listed
<1> QED
  BY <1>2, <1>4, <1>5

\* What is first in a sequence is in it.
LEMMA FirstOfIn ==
  ASSUME NEW T, NEW s \in Seq(T \cup {None})
  PROVE  FirstOf(s) \in ToSet(s) \cup {None}
<1> DEFINE I == {i \in 1 .. Len(s) : s[i] # None}
           i == SelectInSeq(s, LAMBDA o : o # None)
<1>1. i = IF I # {} THEN Min(I) ELSE 0
  BY DEF SelectInSeq
<1>2. FirstOf(s) = IF i = 0 THEN None ELSE s[i]
  BY DEF FirstOf
<1>3. I \in SUBSET Nat /\ DOMAIN s = 1 .. Len(s)
  BY LenProperties
<1> HIDE DEF i
<1>4. CASE I = {}
  BY <1>1, <1>2, <1>4
<1>5. CASE I # {}
  <2>1. Min(I) \in I
    BY <1>3, <1>5, MinIsIn
  <2>2. i \in DOMAIN s
    BY <1>1, <1>3, <1>5, <2>1
  <2> QED
    BY <1>2, <2>2 DEF ToSet
<1> QED
  BY <1>4, <1>5

----------------------------------------------------------------------------
(* Frames and the focus. *)

\* The focus and the keyboard are where they were.
SameFocus(e, d) ==
  e.focused = d.focused /\ e.keyboard = d.keyboard /\ e.surface = d.surface

\* So is all that is pointed at, but for the lists and the windows in fullscreen.
SameElse(e, d) ==
  /\ SameFocus(e, d) /\ SameWindows(e, d) /\ e.last_focused = d.last_focused
  /\ e.grabbed = d.grabbed /\ e.leaf = d.leaf /\ e.handle = d.handle

\* And these.
SamePointers(e, d) ==
  /\ SameElse(e, d) /\ e.toplevels = d.toplevels /\ e.floats = d.floats
  /\ e.fullscreen = d.fullscreen /\ e.fullscreen_window = d.fullscreen_window
  /\ e.saved_floating = d.saved_floating

\* Only the lists differ.
ListsDiffer(u, d) ==
  /\ SameElse(u, d) /\ u.fullscreen = d.fullscreen
  /\ u.fullscreen_window = d.fullscreen_window /\ u.saved_floating = d.saved_floating

\* They are all that is unlinked.
LEMMA ElseStays ==
  ASSUME NEW d \in Desk, NEW u, NEW o, Unlinked(u, d, o)
  PROVE  ListsDiffer(u, d)
<1> DEFINE ts == u.toplevels
           fs == u.floats
<1>0. u = [d EXCEPT !.toplevels = ts, !.floats = fs]
  BY DEF Unlinked
<1> HIDE DEF ts, fs
<1> USE <1>0
<1>1. SameFocus(u, d)
  BY DEF Desk, SameFocus
<1>2. SameWindows(u, d)
  BY DEF Desk, SameWindows
<1>3. /\ u.last_focused = d.last_focused /\ u.grabbed = d.grabbed /\ u.leaf = d.leaf
      /\ u.handle = d.handle
  BY DEF Desk
<1>4. /\ u.fullscreen = d.fullscreen /\ u.fullscreen_window = d.fullscreen_window
      /\ u.saved_floating = d.saved_floating
  BY DEF Desk
<1> QED
  BY <1>1, <1>2, <1>3, <1>4 DEF SameElse, ListsDiffer

\* The keyboard stays on what it was on.
LEMMA KeyboardStays ==
  ASSUME NEW d, NEW e, SameFocus(e, d), KeyboardOn(d) PROVE KeyboardOn(e)
  BY DEF KeyboardOn, SameFocus

\* What else there is does not matter for pointers.
LEMMA PointersStay ==
  ASSUME NEW d, NEW M, NEW N, Nearly(d, M, N), NEW e \in Desk, SamePointers(e, d)
  PROVE  Nearly(e, M, N)
  BY DEF Nearly, Pointed, Listed, SamePointers, SameElse, SameFocus

\* Only frames differ.
Redrawn(e, d) == e \in Desk /\ e = [d EXCEPT !.border_shown = e.border_shown]

\* Frames do not matter for pointers.
LEMMA RedrawnSame ==
  ASSUME NEW d \in Desk, NEW e, Redrawn(e, d) PROVE SamePointers(e, d)
  BY DEF Redrawn, Desk, SamePointers, SameElse, SameFocus, SameWindows

\* The frame of some objects is drawn anew (border.c:99-166).
LEMMA UpdateBorder ==
  ASSUME NEW d \in Desk, NEW os \in SUBSET Object
  PROVE  LET e == toplevel_update_border(d, os)
         IN /\ Redrawn(e, d)
            /\ \A o : o \in e.border_shown <=>
                        IF o \in os THEN should_show_border(d, o) ELSE o \in d.border_shown
<1> DEFINE bs == (d.border_shown \ os) \cup {o \in os : should_show_border(d, o)}
<1>1. bs \in SUBSET Object
  BY DEF Desk
<1>2. toplevel_update_border(d, os) = [d EXCEPT !.border_shown = bs]
  BY DEF toplevel_update_border
<1>3. \A o : o \in bs <=> IF o \in os THEN should_show_border(d, o) ELSE o \in d.border_shown
  OBVIOUS
<1> DEFINE e == toplevel_update_border(d, os)
<1> HIDE DEF bs, e
<1>4. e = [d EXCEPT !.border_shown = bs]
  BY <1>2 DEF e
<1>5. e.border_shown = bs
  BY <1>4 DEF Desk
<1>6. Redrawn(e, d)
  BY <1>1, <1>4, <1>5 DEF Redrawn, Desk
<1> QED
  BY <1>3, <1>5, <1>6 DEF e

\* Objects in a list are framed as they should be, whatever was framed before
\* (border.c:168-177).
LEMMA UpdateAll ==
  ASSUME NEW d, NEW M, Nearly(d, M, {})
  PROVE  LET e == workspace_update_borders(d)
         IN e \in Desk /\ SamePointers(e, d) /\ Nearly(e, M, {}) /\ Framed(e, M)
<1> DEFINE e == workspace_update_borders(d)
<1>1. d \in Desk /\ Listed(d) \in SUBSET Object
  <2>1. d.toplevels \in Seq(Object) /\ d.floats \in Seq(Object)
    BY DEF Nearly, Desk
  <2> QED
    BY <2>1, MembersIn DEF Nearly, Listed
<1>2. /\ Redrawn(e, d)
      /\ \A o : o \in e.border_shown <=>
                  IF o \in Listed(d) THEN should_show_border(d, o) ELSE o \in d.border_shown
  BY <1>1, UpdateBorder DEF workspace_update_borders
<1> HIDE DEF e
<1>3. e \in Desk /\ SamePointers(e, d)
  BY <1>1, <1>2, RedrawnSame DEF Redrawn
<1>4. Nearly(e, M, {})
  BY <1>3, PointersStay
<1>5. /\ e.focused = d.focused /\ e.fullscreen = d.fullscreen
      /\ \A o : IsMenu(e, o) <=> IsMenu(d, o)
  BY <1>3 DEF SamePointers, SameElse, SameFocus, SameWindows, IsMenu
<1>6. M \ Listed(d) \subseteq d.fullscreen
  BY DEF Nearly, Pointed
<1>7. Framed(e, M)
  BY <1>2, <1>5, <1>6 DEF Framed, should_show_border
<1> QED
  BY <1>3, <1>4, <1>7 DEF e

\* The frame of one object is drawn anew.
LEMMA UpdateOne ==
  ASSUME NEW d, NEW M, Good(d, M), Framed(d, M), NEW o \in Object
  PROVE  LET e == toplevel_update_border(d, {o})
         IN Good(e, M) /\ Framed(e, M) /\ SameWindows(e, d)
<1> DEFINE e == toplevel_update_border(d, {o})
<1>1. d \in Desk
  BY DEF Good, Nearly
<1>2. /\ Redrawn(e, d)
      /\ \A p : p \in e.border_shown <=>
                  IF p \in {o} THEN should_show_border(d, p) ELSE p \in d.border_shown
  BY <1>1, UpdateBorder
<1> HIDE DEF e
<1>3. e \in Desk /\ SamePointers(e, d) /\ SameFocus(e, d) /\ SameWindows(e, d)
  BY <1>1, <1>2, RedrawnSame DEF Redrawn, SamePointers, SameElse
<1>4. Good(e, M)
  BY <1>3, PointersStay, KeyboardStays DEF Good
<1>5. /\ e.focused = d.focused /\ e.fullscreen = d.fullscreen /\ e.disabled = d.disabled
      /\ \A p : IsMenu(e, p) <=> IsMenu(d, p)
  BY <1>1, <1>2 DEF Redrawn, Desk, IsMenu
<1>6. Framed(e, M)
  BY <1>2, <1>5 DEF Framed, should_show_border
<1> QED
  BY <1>3, <1>4, <1>6 DEF e

\* An object goes to the front of a list.
LEMMA LinkGood ==
  ASSUME NEW d, NEW M \in SUBSET Object, NEW o \in M, Nearly(d, M, {o}), NEW e, Linked(e, d, o)
  PROVE  /\ Nearly(e, M, {}) /\ SameElse(e, d) /\ e.fullscreen = d.fullscreen
         /\ e.fullscreen_window = d.fullscreen_window /\ e.saved_floating = d.saved_floating
         /\ e.floating = d.floating
         /\ o \in Listed(e)
<1>1. /\ e = [d EXCEPT !.toplevels = e.toplevels, !.floats = e.floats]
      /\ e \in Desk /\ IsInjective(e.toplevels) /\ IsInjective(e.floats)
      /\ Listed(e) = Listed(d) \cup {o}
  <2>1. d \in Desk /\ IsInjective(d.toplevels) /\ IsInjective(d.floats) /\ o \in Object
    BY DEF Nearly
  <2> QED
    BY <2>1, LinkLists
<1>2. /\ SameElse(e, d) /\ e.fullscreen = d.fullscreen /\ e.floating = d.floating
      /\ e.fullscreen_window = d.fullscreen_window /\ e.saved_floating = d.saved_floating
  BY <1>1 DEF Nearly, Desk, SameElse, SameFocus, SameWindows
<1> QED
  BY <1>1, <1>2 DEF Nearly, Pointed, SameElse, SameFocus

\* An object floats.
LEMMA FloatGood ==
  ASSUME NEW d, NEW M \in SUBSET Object, NEW o \in M, Nearly(d, M, {o})
  PROVE  LET e == Float(d, o)
         IN /\ Nearly(e, M, {}) /\ SameElse(e, d) /\ e.fullscreen = d.fullscreen
            /\ o \in Listed(e)
<1> DEFINE f == [d EXCEPT !.floating = @ \cup {o}]
           e == LinkFloating(f, o)
<1>1. f \in Desk /\ SamePointers(f, d)
  BY DEF Nearly, Desk, SamePointers, SameElse, SameFocus, SameWindows
<1>2. Float(d, o) = e
  BY DEF Float
<1> HIDE DEF f
<1>3. Nearly(f, M, {o})
  BY <1>1, PointersStay
<1>4. Linked(e, f, o)
  BY DEF Linked
<1> HIDE DEF e
<1>5. Nearly(e, M, {}) /\ SameElse(e, f) /\ e.fullscreen = f.fullscreen /\ o \in Listed(e)
  BY <1>3, <1>4, LinkGood
<1> QED
  BY <1>1, <1>2, <1>5 DEF SamePointers, SameElse, SameFocus, SameWindows

\* A window gets the keyboard; it is on the focused one before, or that is the
\* window that is to get it (window.c:21-194).
LEMMA FocusGood ==
  ASSUME Constants, NEW d, NEW M \in SUBSET Object, NEW o \in M, Nearly(d, M, {}),
         KeyboardOn(d) \/ d.focused = o
  PROVE  LET e == focus_toplevel(d, o)
         IN /\ Good(e, M) /\ SameWindows(e, d) /\ e.fullscreen = d.fullscreen
            /\ Framed(d, M) => Framed(e, M)
<1> DEFINE f == [d EXCEPT !.last_focused = d.focused, !.focused = o,
                          !.keyboard = d.surface[o]]
           g == IF o \in d.floating THEN LinkFloating(f, o) ELSE f
           e == focus_toplevel(d, o)
<1>1. CASE d.keyboard = d.surface[o]
  <2>1. e = d
    BY <1>1 DEF focus_toplevel
  <2>2. KeyboardOn(d)
    BY <1>1 DEF KeyboardOn, Constants
  <2> HIDE DEF e
  <2> QED
    BY <2>1, <2>2 DEF SameWindows, Good, e
<1>2. CASE d.keyboard # d.surface[o]
  <2>1. e = workspace_update_borders(g)
    BY <1>2 DEF focus_toplevel
  <2>2. /\ f \in Desk /\ f.toplevels = d.toplevels /\ f.floats = d.floats
        /\ f.focused = o /\ f.last_focused = d.focused
        /\ f.fullscreen_window = d.fullscreen_window /\ f.grabbed = d.grabbed
        /\ f.keyboard = d.surface[o] /\ f.fullscreen = d.fullscreen
        /\ f.saved_floating = d.saved_floating /\ f.leaf = d.leaf /\ f.handle = d.handle
        /\ SameWindows(f, d)
    <3>1. d \in Desk /\ d.surface[o] \in XSurface \cup {None}
      BY DEF Nearly, Desk
    <3>2. d.focused \in Object \cup {None}
      BY <3>1 DEF Desk
    <3> QED
      BY <3>1, <3>2 DEF Desk, SameWindows
  <2> HIDE DEF f
  <2>3. Nearly(f, M, {}) /\ KeyboardOn(f)
    <3>1. KeyboardOn(f)
      BY <2>2 DEF KeyboardOn, SameWindows, Constants
    <3> QED
      BY <2>2, <3>1 DEF Nearly, Pointed, Listed
  <2>4. Nearly(g, M, {}) /\ KeyboardOn(g) /\ SameWindows(g, d) /\ g.fullscreen = d.fullscreen
    <3>1. CASE o \in d.floating
      <4>1. Linked(g, f, o) /\ Nearly(f, M, {o})
        BY <2>3, <3>1 DEF Linked, Nearly, Pointed
      <4> HIDE DEF g
      <4>2. Nearly(g, M, {}) /\ SameElse(g, f) /\ g.fullscreen = f.fullscreen
        BY <4>1, LinkGood
      <4> QED
        BY <2>2, <2>3, <4>2, KeyboardStays DEF SameElse, SameWindows
    <3>2. CASE o \notin d.floating
      BY <2>2, <2>3, <3>2
    <3> QED
      BY <3>1, <3>2
  <2> HIDE DEF g
  <2>5. SamePointers(e, g) /\ Nearly(e, M, {}) /\ Framed(e, M)
    BY <2>1, <2>4, UpdateAll
  <2> HIDE DEF e
  <2>6. SameWindows(e, g) /\ e.fullscreen = g.fullscreen /\ SameFocus(e, g)
    BY <2>5 DEF SamePointers, SameElse
  <2>7. KeyboardOn(e)
    BY <2>4, <2>6, KeyboardStays
  <2> QED
    BY <2>4, <2>5, <2>6, <2>7 DEF Good, SameWindows, e
<1> QED
  BY <1>1, <1>2

\* The same for a state that is good.
LEMMA UpdateGood ==
  ASSUME NEW d, NEW M, Good(d, M)
  PROVE  LET e == workspace_update_borders(d)
         IN Good(e, M) /\ Framed(e, M) /\ SameWindows(e, d)
<1> DEFINE e == workspace_update_borders(d)
<1>1. SamePointers(e, d) /\ Nearly(e, M, {}) /\ Framed(e, M)
  BY UpdateAll DEF Good
<1> HIDE DEF e
<1>2. SameFocus(e, d) /\ SameWindows(e, d)
  BY <1>1 DEF SamePointers, SameElse
<1>3. KeyboardOn(e)
  BY <1>2, KeyboardStays DEF Good
<1> QED
  BY <1>1, <1>2, <1>3 DEF Good, e

\* A window gets the keyboard and the frames are drawn.
LEMMA FocusAndFrame ==
  ASSUME Constants, NEW d, NEW M \in SUBSET Object, NEW o \in M, Good(d, M)
  PROVE  LET e == workspace_update_borders(focus_toplevel(d, o))
         IN Good(e, M) /\ Framed(e, M) /\ SameWindows(e, d)
<1> DEFINE f == focus_toplevel(d, o)
<1>1. Good(f, M) /\ SameWindows(f, d)
  BY FocusGood DEF Good
<1> HIDE DEF f
<1>2. LET e == workspace_update_borders(f)
      IN Good(e, M) /\ Framed(e, M) /\ SameWindows(e, f)
  BY <1>1, UpdateGood
<1> QED
  BY <1>1, <1>2 DEF SameWindows, f

----------------------------------------------------------------------------
(* Floating and fullscreen. *)

\* A window floats or is tiled again (floating.c:24-151).
LEMMA ToggleFloatingGood ==
  ASSUME Constants, NEW d, NEW M \in SUBSET Object, NEW o \in M, Good(d, M), Framed(d, M)
  PROVE  LET e == toggle_floating(d, o)
         IN Good(e, M) /\ Framed(e, M) /\ SameWindows(e, d)
<1> DEFINE a == [d EXCEPT !.leaf = @ \ {o}]
           b == [d EXCEPT !.leaf = @ \cup {o}, !.floating = @ \ {o}]
           x == IF o \in d.floating THEN LinkTiled(b, o) ELSE Float(a, o)
<1>1. CASE o \in d.fullscreen
  BY <1>1 DEF toggle_floating, SameWindows
<1>2. CASE o \notin d.fullscreen
  <2>1. toggle_floating(d, o) = workspace_update_borders(focus_toplevel(x, o))
    BY <1>2 DEF toggle_floating
  <2>2. d \in Desk /\ o \in Object
    BY DEF Good, Nearly
  <2>3. /\ a \in Desk /\ a.leaf = d.leaf \ {o} /\ SameWindows(a, d) /\ SameFocus(a, d)
        /\ a.toplevels = d.toplevels /\ a.floats = d.floats /\ a.handle = d.handle
        /\ a.fullscreen = d.fullscreen /\ a.fullscreen_window = d.fullscreen_window
        /\ a.saved_floating = d.saved_floating /\ a.last_focused = d.last_focused
        /\ a.grabbed = d.grabbed
    BY <2>2 DEF Desk, SameWindows, SameFocus
  <2>4. /\ b \in Desk /\ b.leaf = d.leaf \cup {o} /\ SameWindows(b, d) /\ SameFocus(b, d)
        /\ b.toplevels = d.toplevels /\ b.floats = d.floats /\ b.handle = d.handle
        /\ b.fullscreen = d.fullscreen /\ b.fullscreen_window = d.fullscreen_window
        /\ b.saved_floating = d.saved_floating /\ b.last_focused = d.last_focused
        /\ b.grabbed = d.grabbed
    BY <2>2 DEF Desk, SameWindows, SameFocus
  <2> HIDE DEF a, b
  <2>5. Nearly(a, M, {o})
    BY <2>3 DEF Good, Nearly, Pointed, Listed, SameFocus
  <2>6. Nearly(b, M, {o})
    BY <2>4 DEF Good, Nearly, Pointed, Listed, SameFocus
  <2>7. Nearly(x, M, {}) /\ SameFocus(x, d) /\ SameWindows(x, d)
    <3>1. CASE o \in d.floating
      <4>1. Linked(x, b, o)
        BY <3>1 DEF Linked
      <4> HIDE DEF x
      <4>2. Nearly(x, M, {}) /\ SameElse(x, b)
        BY <2>6, <4>1, LinkGood
      <4> QED
        BY <2>4, <4>2 DEF SameElse, SameFocus, SameWindows
    <3>2. CASE o \notin d.floating
      <4>1. x = Float(a, o)
        BY <3>2
      <4> HIDE DEF x
      <4>2. Nearly(x, M, {}) /\ SameElse(x, a)
        BY <2>5, <4>1, FloatGood
      <4> QED
        BY <2>3, <4>2 DEF SameElse, SameFocus, SameWindows
    <3> QED
      BY <3>1, <3>2
  <2> HIDE DEF x
  <2>8. Good(x, M)
    BY <2>7, KeyboardStays DEF Good
  <2>9. LET e == workspace_update_borders(focus_toplevel(x, o))
        IN Good(e, M) /\ Framed(e, M) /\ SameWindows(e, x)
    BY <2>8, FocusAndFrame
  <2> QED
    BY <2>1, <2>7, <2>9 DEF SameWindows
<1> QED
  BY <1>1, <1>2

\* A window enters fullscreen; one that floats is in no list then (floating.c:160-223).
LEMMA EnterGood ==
  ASSUME NEW d, NEW M \in SUBSET Object, NEW o \in M, Good(d, M), o \notin d.fullscreen
  PROVE  LET e == EnterFullscreen(d, o)
         IN Good(e, M) /\ Framed(e, M) /\ SameWindows(e, d)
<1> DEFINE f == [d EXCEPT !.saved_floating = (@ \ {o}) \cup (d.floating \cap {o}),
                          !.floating = @ \ {o}, !.fullscreen = @ \cup {o},
                          !.fullscreen_window = o,
                          !.disabled = @ \cup (Listed(d) \ {o})]
           e == EnterFullscreen(d, o)
           u == Unlink(f, o)
<1>1. d \in Desk /\ o \in Object /\ Listed(d) \subseteq Object
  BY DEF Good, Nearly, Pointed
<1>2. e = IF o \in d.floating THEN u ELSE f
  BY DEF EnterFullscreen
<1>3. /\ f \in Desk /\ SameElse(f, d) /\ f.toplevels = d.toplevels /\ f.floats = d.floats
      /\ f.fullscreen = d.fullscreen \cup {o} /\ f.fullscreen_window = o
      /\ f.saved_floating = (d.saved_floating \ {o}) \cup (d.floating \cap {o})
  BY <1>1 DEF Desk, SameElse, SameFocus, SameWindows
<1> HIDE DEF f
<1>4. o \in Listed(d)
  BY DEF Good, Nearly, Pointed
<1>5. Nearly(f, M, {})
  BY <1>3, <1>4 DEF Good, Nearly, Pointed, Listed, SameElse, SameFocus
<1>6. Nearly(e, M, {}) /\ SameElse(e, f) /\ e.fullscreen # {}
  <2>1. CASE o \in d.floating
    <3>0. Unlinked(u, f, o)
      <4>1. f \in Desk /\ IsInjective(f.toplevels) /\ IsInjective(f.floats)
        BY <1>5 DEF Nearly
      <4> QED
        BY <1>1, <4>1, UnlinkLists
    <3>2. e = u
      BY <1>2, <2>1
    <3> HIDE DEF u
    <3>1. /\ u \in Desk /\ IsInjective(u.toplevels) /\ IsInjective(u.floats)
          /\ ToSet(u.toplevels) = ToSet(f.toplevels) \ {o}
          /\ ToSet(u.floats) = ToSet(f.floats) \ {o}
      BY <3>0 DEF Unlinked
    <3>3. /\ SameElse(u, f) /\ u.fullscreen = f.fullscreen
          /\ u.fullscreen_window = f.fullscreen_window /\ u.saved_floating = f.saved_floating
      <4>1. ListsDiffer(u, f)
        BY <1>3, <3>0, ElseStays
      <4> QED
        BY <4>1 DEF ListsDiffer
    <3>4. Listed(u) = Listed(f) \ {o} /\ o \in u.saved_floating /\ o \in u.fullscreen
      BY <1>3, <2>1, <3>1, <3>3 DEF Listed
    <3>5. Nearly(u, M, {})
      BY <1>5, <3>1, <3>3, <3>4 DEF Nearly, Pointed, SameElse, SameFocus
    <3> QED
      BY <3>2, <3>3, <3>4, <3>5
  <2>2. CASE o \notin d.floating
    <3>1. e = f
      BY <1>2, <2>2
    <3> QED
      BY <1>3, <1>5, <3>1 DEF SameElse, SameFocus, SameWindows
  <2> QED
    BY <2>1, <2>2
<1> HIDE DEF e
<1>7. SameFocus(e, d) /\ SameWindows(e, d)
  BY <1>3, <1>6 DEF SameElse, SameFocus, SameWindows
<1>8. Good(e, M)
  BY <1>6, <1>7, KeyboardStays DEF Good
<1> QED
  BY <1>6, <1>7, <1>8 DEF Framed, e

\* A window leaves fullscreen; one that floated is in a list again (floating.c:225-276).
LEMMA LeaveGood ==
  ASSUME Constants, NEW d, NEW M \in SUBSET Object, NEW o \in M, Good(d, M),
         o \in d.fullscreen
  PROVE  LET e == LeaveFullscreen(d, o)
         IN Good(e, M) /\ Framed(e, M) /\ SameWindows(e, d)
<1> DEFINE f == [d EXCEPT !.fullscreen = @ \ {o}, !.fullscreen_window = None]
           x == IF o \in d.saved_floating THEN Float(f, o) ELSE f
           s == [x EXCEPT !.disabled = @ \ Listed(x)]
<1>1. LeaveFullscreen(d, o)
        = workspace_update_borders(IF d.focused = o THEN focus_toplevel(s, o) ELSE s)
  BY DEF LeaveFullscreen, Good, Nearly, Desk
<1>2. d \in Desk
  BY DEF Good, Nearly
<1>3. /\ f \in Desk /\ SameElse(f, d) /\ f.toplevels = d.toplevels /\ f.floats = d.floats
      /\ f.fullscreen = d.fullscreen \ {o} /\ f.fullscreen_window = None
      /\ f.saved_floating = d.saved_floating
  BY <1>2 DEF Desk, SameElse, SameFocus, SameWindows
<1> HIDE DEF f
<1>4. Nearly(f, M, {o})
  BY <1>3 DEF Good, Nearly, Pointed, Listed, SameElse, SameFocus
<1>5. Nearly(x, M, {}) /\ SameElse(x, d)
  <2>1. CASE o \in d.saved_floating
    <3>1. x = Float(f, o)
      BY <1>3, <2>1
    <3> HIDE DEF x
    <3>2. Nearly(x, M, {}) /\ SameElse(x, f)
      BY <1>4, <3>1, FloatGood
    <3> QED
      BY <1>3, <3>2 DEF SameElse, SameFocus, SameWindows
  <2>2. CASE o \notin d.saved_floating
    <3>1. o \in Listed(d)
      BY <2>2 DEF Good, Nearly, Pointed
    <3>2. o \in Listed(f)
      BY <1>3, <3>1 DEF Listed
    <3>3. Nearly(f, M, {})
      BY <1>4, <3>2 DEF Nearly, Pointed
    <3> QED
      BY <1>3, <2>2, <3>3
  <2> QED
    BY <2>1, <2>2
<1> HIDE DEF x
<1>6. Nearly(s, M, {}) /\ SameFocus(s, d) /\ SameWindows(s, d)
  <2>1. x \in Desk
    BY <1>5 DEF Nearly
  <2>2. s \in Desk /\ SamePointers(s, x)
    BY <2>1 DEF Desk, SamePointers, SameElse, SameFocus, SameWindows
  <2> HIDE DEF s
  <2>3. Nearly(s, M, {})
    BY <1>5, <2>2, PointersStay
  <2> QED
    BY <1>5, <2>2, <2>3 DEF SamePointers, SameElse, SameFocus, SameWindows
<1> HIDE DEF s
<1>7. Good(s, M)
  BY <1>6, KeyboardStays DEF Good
<1>8. CASE d.focused = o
  <2>1. LET e == workspace_update_borders(focus_toplevel(s, o))
        IN Good(e, M) /\ Framed(e, M) /\ SameWindows(e, s)
    BY <1>7, FocusAndFrame
  <2> QED
    BY <1>1, <1>6, <1>8, <2>1 DEF SameWindows
<1>9. CASE d.focused # o
  <2>1. LET e == workspace_update_borders(s)
        IN Good(e, M) /\ Framed(e, M) /\ SameWindows(e, s)
    BY <1>7, UpdateGood
  <2> QED
    BY <1>1, <1>6, <1>9, <2>1 DEF SameWindows
<1> QED
  BY <1>8, <1>9

\* Both.
LEMMA ToggleFullscreenGood ==
  ASSUME Constants, NEW d, NEW M \in SUBSET Object, NEW o \in M, Good(d, M)
  PROVE  LET e == toggle_fullscreen(d, o)
         IN Good(e, M) /\ Framed(e, M) /\ SameWindows(e, d)
<1>1. CASE o \in d.fullscreen
  BY <1>1, LeaveGood DEF toggle_fullscreen
<1>2. CASE o \notin d.fullscreen
  BY <1>2, EnterGood DEF toggle_fullscreen
<1> QED
  BY <1>1, <1>2

----------------------------------------------------------------------------
(* Windows come and go. *)

\* A menu that is in a list floats (window_xwayland.c:85-119).
LEMMA MapMenuGood ==
  ASSUME NEW d, NEW M \in SUBSET Object, NEW o \in M, Good(d, M)
  PROVE  LET e == MapMenu(d, o)
         IN Good(e, M) /\ Framed(e, M) /\ SameWindows(e, d)
<1> DEFINE x == Float(d, o)
<1>1. Nearly(d, M, {o})
  BY DEF Good, Nearly, Pointed
<1>2. Nearly(x, M, {}) /\ SameElse(x, d)
  BY <1>1, FloatGood
<1> HIDE DEF x
<1>3. Good(x, M)
  BY <1>2, KeyboardStays DEF Good, SameElse
<1>4. LET e == workspace_update_borders(x)
      IN Good(e, M) /\ Framed(e, M) /\ SameWindows(e, x)
  BY <1>3, UpdateGood
<1> QED
  BY <1>2, <1>4 DEF MapMenu, x, SameElse, SameWindows

\* Another window floats and gets the keyboard (window_xwayland.c:130-149).
LEMMA MapFloatGood ==
  ASSUME Constants, NEW d, NEW M \in SUBSET Object, NEW o \in M, Good(d, M)
  PROVE  LET e == MapFloat(d, o)
         IN Good(e, M) /\ Framed(e, M) /\ SameWindows(e, d)
<1> DEFINE x == IF o \in d.floating \cup d.fullscreen THEN d ELSE Float(d, o)
<1>1. Good(x, M) /\ SameWindows(x, d)
  <2>1. CASE o \in d.floating \cup d.fullscreen
    BY <2>1 DEF SameWindows
  <2>2. CASE o \notin d.floating \cup d.fullscreen
    <3>1. x = Float(d, o)
      BY <2>2
    <3>2. Nearly(d, M, {o})
      BY DEF Good, Nearly, Pointed
    <3> HIDE DEF x
    <3>3. Nearly(x, M, {}) /\ SameElse(x, d)
      BY <3>1, <3>2, FloatGood
    <3> QED
      BY <3>3, KeyboardStays DEF Good, SameElse
  <2> QED
    BY <2>1, <2>2
<1> HIDE DEF x
<1>2. LET e == workspace_update_borders(focus_toplevel(x, o))
      IN Good(e, M) /\ Framed(e, M) /\ SameWindows(e, x)
  BY <1>1, FocusAndFrame
<1> QED
  BY <1>1, <1>2 DEF MapFloat, x, SameWindows

\* It is tiled; under a fullscreen window it is hidden (window_xwayland.c:120-129).
LEMMA MapTileGood ==
  ASSUME Constants, NEW d, NEW M \in SUBSET Object, NEW o \in M, Good(d, M)
  PROVE  LET e == MapTile(d, o)
         IN Good(e, M) /\ Framed(e, M) /\ SameWindows(e, d)
<1> DEFINE l == [d EXCEPT !.leaf = @ \cup {o}]
           x == workspace_update_borders(l)
<1>1. d \in Desk /\ o \in Object
  BY DEF Good, Nearly
<1>2. /\ l \in Desk /\ l.leaf = d.leaf \cup {o} /\ SameWindows(l, d) /\ SameFocus(l, d)
      /\ l.toplevels = d.toplevels /\ l.floats = d.floats /\ l.handle = d.handle
      /\ l.fullscreen = d.fullscreen /\ l.fullscreen_window = d.fullscreen_window
      /\ l.saved_floating = d.saved_floating /\ l.last_focused = d.last_focused
      /\ l.grabbed = d.grabbed
  BY <1>1 DEF Desk, SameWindows, SameFocus
<1> HIDE DEF l
<1>3. Good(l, M)
  <2>1. Nearly(l, M, {})
    BY <1>2 DEF Good, Nearly, Pointed, Listed, SameFocus
  <2> QED
    BY <1>2, <2>1, KeyboardStays DEF Good
<1>4. Good(x, M) /\ Framed(x, M) /\ SameWindows(x, l)
  BY <1>3, UpdateGood
<1>5. MapTile(d, o) = IF d.fullscreen_window \in {None, o} THEN focus_toplevel(x, o)
                      ELSE [x EXCEPT !.disabled = @ \cup {o}]
  BY DEF MapTile, l
<1> HIDE DEF x
<1>6. CASE d.fullscreen_window \in {None, o}
  <2>1. LET e == focus_toplevel(x, o)
        IN Good(e, M) /\ SameWindows(e, x) /\ (Framed(x, M) => Framed(e, M))
    BY <1>4, FocusGood DEF Good
  <2> QED
    BY <1>2, <1>4, <1>5, <1>6, <2>1 DEF SameWindows
<1>7. CASE d.fullscreen_window \notin {None, o}
  <2> DEFINE e == [x EXCEPT !.disabled = @ \cup {o}]
  <2>1. x \in Desk
    BY <1>4 DEF Good, Nearly
  <2>2. /\ e \in Desk /\ SamePointers(e, x) /\ e.disabled = x.disabled \cup {o}
        /\ e.border_shown = x.border_shown
    <3> DEFINE off == x.disabled \cup {o}
    <3>1. off \in SUBSET Object /\ e = [x EXCEPT !.disabled = off]
      BY <1>1, <2>1 DEF Desk
    <3> HIDE DEF e, off
    <3>2. e \in Desk
      BY <2>1, <3>1 DEF Desk
    <3>3. SameFocus(e, x) /\ SameWindows(e, x)
      BY <2>1, <3>1 DEF Desk, SameFocus, SameWindows
    <3>4. SameElse(e, x)
      BY <2>1, <3>1, <3>3 DEF Desk, SameElse
    <3>5. SamePointers(e, x) /\ e.disabled = off /\ e.border_shown = x.border_shown
      BY <2>1, <3>1, <3>4 DEF Desk, SamePointers
    <3> QED
      BY <3>2, <3>5 DEF off
  <2>3. MapTile(d, o) = e
    BY <1>5, <1>7
  <2> HIDE DEF e
  <2>4. SameFocus(e, x) /\ SameWindows(e, x)
    BY <2>2 DEF SamePointers, SameElse
  <2>5. Good(e, M)
    BY <1>4, <2>2, <2>4, PointersStay, KeyboardStays DEF Good
  <2>6. Framed(e, M)
    BY <1>4, <2>2, <2>4 DEF Framed, SamePointers, SameFocus, SameWindows, IsMenu
  <2> QED
    BY <1>2, <1>4, <2>3, <2>4, <2>5, <2>6 DEF SameWindows
<1> QED
  BY <1>6, <1>7

\* An object comes among those pointed at (window_xwayland.c:40-149).
LEMMA MapGood ==
  ASSUME Constants, NEW d, NEW M \in SUBSET Object, NEW o \in Object, o \notin M,
         Good(d, M), NEW tile \in BOOLEAN
  PROVE  LET e == xwayland_toplevel_map(d, o, tile)
         IN Good(e, M \cup {o}) /\ Framed(e, M \cup {o}) /\ SameWindows(e, d)
<1> DEFINE h == [d EXCEPT !.handle = @ \cup {o}]
           x == LinkTiled(h, o)
           N == M \cup {o}
           e == xwayland_toplevel_map(d, o, tile)
<1>1. d \in Desk
  BY DEF Good, Nearly
<1>2. /\ h \in Desk /\ h.handle = d.handle \cup {o} /\ SameWindows(h, d) /\ SameFocus(h, d)
      /\ h.toplevels = d.toplevels /\ h.floats = d.floats /\ h.leaf = d.leaf
      /\ h.fullscreen = d.fullscreen /\ h.fullscreen_window = d.fullscreen_window
      /\ h.saved_floating = d.saved_floating /\ h.last_focused = d.last_focused
      /\ h.grabbed = d.grabbed
  BY <1>1 DEF Desk, SameWindows, SameFocus
<1> HIDE DEF h
<1>3. Nearly(h, N, {o})
  BY <1>2 DEF Good, Nearly, Pointed, Listed, SameFocus
<1>4. Linked(x, h, o) /\ N \in SUBSET Object /\ o \in N
  BY DEF Linked
<1>5. e \in {MapMenu(x, o), MapFloat(x, o), MapTile(x, o)}
  BY DEF xwayland_toplevel_map, h
<1> HIDE DEF x, e, N
<1>6. Nearly(x, N, {}) /\ SameElse(x, h)
  BY <1>3, <1>4, LinkGood
<1>7. Good(x, N) /\ SameWindows(x, d)
  <2>1. SameFocus(x, d) /\ SameWindows(x, d)
    BY <1>2, <1>6 DEF SameElse, SameFocus, SameWindows
  <2> QED
    BY <1>6, <2>1, KeyboardStays DEF Good
<1>8. Good(e, N) /\ Framed(e, N) /\ SameWindows(e, x)
  BY <1>4, <1>5, <1>7, MapMenuGood, MapFloatGood, MapTileGood
<1> QED
  BY <1>7, <1>8 DEF SameWindows, N, e

\* No pointer leads to an object that was removed, but perhaps the focus
\* (window_xwayland.c:153-183).
LEMMA RemovedGood ==
  ASSUME Constants, NEW d, NEW M \in SUBSET Object, NEW o \in M, Good(d, M)
  PROVE  LET e == Removed(d, o)
         IN /\ e \in Desk /\ SameFocus(e, d) /\ SameWindows(e, d)
            /\ \A f \in (M \ {o}) \cup {None} :
                 Nearly([e EXCEPT !.focused = f], M \ {o}, {})
<1> DEFINE c == [reset_cursor_mode(d, o) EXCEPT
                   !.handle = @ \ {o}, !.leaf = @ \ {o}, !.fullscreen = @ \ {o},
                   !.last_focused = IF @ = o THEN None ELSE @]
           r == Unlink(c, o)
           q == [r EXCEPT !.fullscreen_window = None, !.disabled = @ \ Listed(r)]
           e == Removed(d, o)
<1>1. d \in Desk /\ o \in Object
  BY DEF Good, Nearly
<1>2. /\ c \in Desk /\ SameFocus(c, d) /\ SameWindows(c, d)
      /\ c.toplevels = d.toplevels /\ c.floats = d.floats
      /\ c.handle = d.handle \ {o} /\ c.leaf = d.leaf \ {o}
      /\ c.fullscreen = d.fullscreen \ {o} /\ c.saved_floating = d.saved_floating
      /\ c.fullscreen_window = d.fullscreen_window
      /\ c.last_focused = IF d.last_focused = o THEN None ELSE d.last_focused
      /\ c.grabbed = IF d.grabbed = o THEN None ELSE d.grabbed
  <2> DEFINE last == IF d.last_focused = o THEN None ELSE d.last_focused
             grab == IF d.grabbed = o THEN None ELSE d.grabbed
  <2>1. c = [d EXCEPT !.grabbed = grab, !.handle = @ \ {o}, !.leaf = @ \ {o},
                      !.fullscreen = @ \ {o}, !.last_focused = last]
    BY <1>1 DEF Desk, reset_cursor_mode
  <2>2. last \in Object \cup {None} /\ grab \in Object \cup {None}
    BY <1>1 DEF Desk
  <2> HIDE DEF last, grab, c
  <2>3. /\ c \in Desk /\ SameFocus(c, d) /\ SameWindows(c, d)
        /\ c.toplevels = d.toplevels /\ c.floats = d.floats
        /\ c.handle = d.handle \ {o} /\ c.leaf = d.leaf \ {o}
        /\ c.fullscreen = d.fullscreen \ {o} /\ c.saved_floating = d.saved_floating
        /\ c.fullscreen_window = d.fullscreen_window
        /\ c.last_focused = last /\ c.grabbed = grab
    BY <1>1, <2>1, <2>2 DEF Desk, SameWindows, SameFocus
  <2> QED
    BY <2>3 DEF last, grab
<1>3. e = IF o \notin d.fullscreen THEN r ELSE q
  BY DEF Removed
<1> HIDE DEF c, e
<1>0. Unlinked(r, c, o)
  <2>1. c \in Desk /\ IsInjective(c.toplevels) /\ IsInjective(c.floats)
    BY <1>2 DEF Good, Nearly
  <2> QED
    BY <1>1, <2>1, UnlinkLists
<1> HIDE DEF r
<1>4. /\ r \in Desk /\ IsInjective(r.toplevels) /\ IsInjective(r.floats)
      /\ ToSet(r.toplevels) = ToSet(d.toplevels) \ {o}
      /\ ToSet(r.floats) = ToSet(d.floats) \ {o}
  BY <1>0, <1>2 DEF Unlinked
<1>5. /\ SameElse(r, c) /\ r.fullscreen = c.fullscreen
      /\ r.fullscreen_window = c.fullscreen_window /\ r.saved_floating = c.saved_floating
  <2>1. ListsDiffer(r, c)
    BY <1>0, <1>2, ElseStays
  <2> QED
    BY <2>1 DEF ListsDiffer
<1>6. /\ e \in Desk /\ SameElse(e, c) /\ e.toplevels = r.toplevels /\ e.floats = r.floats
      /\ e.fullscreen = c.fullscreen /\ e.saved_floating = c.saved_floating
      /\ e.fullscreen_window = IF o \in d.fullscreen THEN None ELSE d.fullscreen_window
  <2>1. CASE o \notin d.fullscreen
    BY <1>2, <1>3, <1>4, <1>5, <2>1
  <2>2. CASE o \in d.fullscreen
    <3>1. e = q
      BY <1>3, <2>2
    <3>2. /\ q \in Desk /\ SameElse(q, r) /\ q.toplevels = r.toplevels /\ q.floats = r.floats
          /\ q.fullscreen = r.fullscreen /\ q.saved_floating = r.saved_floating
          /\ q.fullscreen_window = None
      BY <1>4 DEF Desk, SameElse, SameFocus, SameWindows
    <3> HIDE DEF q
    <3> QED
      BY <1>5, <2>2, <3>1, <3>2 DEF SameElse, SameFocus, SameWindows
  <2> QED
    BY <2>1, <2>2
<1>7. Listed(e) = Listed(d) \ {o}
  BY <1>4, <1>6 DEF Listed
<1>8. SameFocus(e, d) /\ SameWindows(e, d)
  BY <1>2, <1>6 DEF SameElse, SameFocus, SameWindows
<1>9. ASSUME NEW f \in (M \ {o}) \cup {None}
      PROVE  Nearly([e EXCEPT !.focused = f], M \ {o}, {})
  <2> DEFINE g == [e EXCEPT !.focused = f]
  <2>1. /\ g \in Desk /\ g.focused = f /\ g.toplevels = e.toplevels /\ g.floats = e.floats
        /\ g.last_focused = e.last_focused /\ g.grabbed = e.grabbed /\ g.leaf = e.leaf
        /\ g.handle = e.handle /\ g.fullscreen = e.fullscreen
        /\ g.fullscreen_window = e.fullscreen_window /\ g.saved_floating = e.saved_floating
    BY <1>6 DEF Desk
  <2> HIDE DEF g
  <2>2. Listed(g) = Listed(d) \ {o}
    BY <1>7, <2>1 DEF Listed
  <2>3. Pointed(g, M \ {o}, {})
    <3>1. {g.focused, g.last_focused, g.grabbed} \subseteq (M \ {o}) \cup {None}
      BY <1>2, <1>6, <2>1 DEF Good, Nearly, Pointed, SameElse
    <3>2. g.fullscreen_window \in g.fullscreen \cup {None}
      BY <1>2, <1>6, <2>1 DEF Good, Nearly, Pointed
    <3>3. Listed(g) \cup g.leaf \cup g.handle \cup g.fullscreen \subseteq M \ {o}
      BY <1>2, <1>6, <2>1, <2>2 DEF Good, Nearly, Pointed, SameElse
    <3>4. (M \ {o}) \ (Listed(g) \cup {}) \subseteq g.fullscreen \cap g.saved_floating
      BY <1>2, <1>6, <2>1, <2>2 DEF Good, Nearly, Pointed
    <3> QED
      BY <3>1, <3>2, <3>3, <3>4 DEF Pointed
  <2> QED
    BY <1>4, <1>6, <2>1, <2>3 DEF Nearly, g
<1> QED
  BY <1>6, <1>8, <1>9 DEF e

\* The focus goes to the sibling, to the first window of a list, or is lost; the
\* keyboard goes with it (window_xwayland.c:151-201).
LEMMA UnmapGood ==
  ASSUME Constants, NEW d, NEW M \in SUBSET Object, NEW o \in M, Good(d, M),
         NEW sibling \in (M \ {o}) \cup {None}
  PROVE  LET e == xwayland_toplevel_unmap(d, o, sibling)
         IN Good(e, M \ {o}) /\ Framed(e, M \ {o}) /\ SameWindows(e, d)
<1> DEFINE r == Removed(d, o)
           n == FirstOf(<<sibling>> \o r.toplevels \o r.floats)
           f == IF r.focused = o THEN n ELSE r.focused
           x == [r EXCEPT !.focused = f]
           y == workspace_update_borders(x)
           N == M \ {o}
           e == xwayland_toplevel_unmap(d, o, sibling)
<1>1. /\ r \in Desk /\ SameFocus(r, d) /\ SameWindows(r, d)
      /\ \A g \in N \cup {None} : Nearly([r EXCEPT !.focused = g], N, {})
  BY RemovedGood
<1>2. e = IF y.focused = None THEN [y EXCEPT !.keyboard = None]
          ELSE IF d.focused = o THEN focus_toplevel(y, n) ELSE y
  <2>1. x = [r EXCEPT !.focused = IF @ = o THEN n ELSE @]
    BY <1>1 DEF Desk
  <2> QED
    BY <2>1 DEF xwayland_toplevel_unmap
<1> HIDE DEF r, e
<1>3. n \in N \cup {None}
  <2>1. Nearly([r EXCEPT !.focused = None], N, {})
    BY <1>1
  <2>2. ToSet(r.toplevels) \cup ToSet(r.floats) \subseteq N
    BY <1>1, <2>1 DEF Nearly, Pointed, Listed, Desk
  <2> DEFINE T == Object \cup {None}
             s == <<sibling>> \o r.toplevels
  <2>3. r.toplevels \in Seq(T) /\ r.floats \in Seq(T) /\ sibling \in T
    <3>1. r.toplevels \in Seq(Object) /\ r.floats \in Seq(Object) /\ Object \subseteq T
      BY <1>1 DEF Desk
    <3>2. sibling \in T
      OBVIOUS
    <3> HIDE DEF T
    <3> QED
      BY <3>1, <3>2
  <2> HIDE DEF T
  <2> DEFINE one == <<sibling>>
  <2>4. one \in Seq(T) /\ ToSet(one) = {sibling}
    BY <2>3, MembersOne
  <2>5. s = one \o r.toplevels
    OBVIOUS
  <2> HIDE DEF one, s
  <2>6. s \in Seq(T) /\ ToSet(s) = {sibling} \cup ToSet(r.toplevels)
    BY <2>3, <2>4, <2>5, MembersConcat
  <2>7. n = FirstOf(s \o r.floats)
    BY <2>5 DEF one
  <2> HIDE DEF n
  <2>8. s \o r.floats \in Seq(T) /\ ToSet(s \o r.floats) = ToSet(s) \cup ToSet(r.floats)
    BY <2>3, <2>6, MembersConcat
  <2>9. n \in ToSet(s \o r.floats) \cup {None}
    BY <2>7, <2>8, FirstOfIn DEF T
  <2> QED
    BY <2>2, <2>6, <2>8, <2>9
<1> HIDE DEF n
<1>4. d.focused \in M \cup {None} /\ r.focused = d.focused
  BY <1>1 DEF Good, Nearly, Pointed, SameFocus
<1>5. f \in N \cup {None}
  BY <1>3, <1>4
<1> HIDE DEF f
<1>6. Nearly(x, N, {})
  BY <1>1, <1>5
<1>7. x.focused = f /\ x.keyboard = r.keyboard /\ x.surface = r.surface /\ SameWindows(x, r)
  BY <1>1 DEF Desk, SameWindows
<1> HIDE DEF x
<1>8. y \in Desk /\ SamePointers(y, x) /\ Nearly(y, N, {}) /\ Framed(y, N)
  BY <1>6, UpdateAll
<1> HIDE DEF y
<1>9. /\ y.focused = f /\ y.keyboard = d.keyboard /\ y.surface = d.surface
      /\ SameWindows(y, d)
  BY <1>1, <1>7, <1>8 DEF SamePointers, SameElse, SameFocus, SameWindows
<1>10. CASE f = None
  <2> DEFINE z == [y EXCEPT !.keyboard = None]
  <2>1. e = z
    BY <1>2, <1>9, <1>10
  <2>2. /\ z \in Desk /\ z.toplevels = y.toplevels /\ z.floats = y.floats
        /\ z.focused = y.focused /\ z.last_focused = y.last_focused /\ z.grabbed = y.grabbed
        /\ z.leaf = y.leaf /\ z.handle = y.handle /\ z.fullscreen = y.fullscreen
        /\ z.fullscreen_window = y.fullscreen_window /\ z.saved_floating = y.saved_floating
        /\ z.border_shown = y.border_shown /\ z.disabled = y.disabled
        /\ z.keyboard = None /\ SameWindows(z, y)
    BY <1>8 DEF Desk, SameWindows
  <2> HIDE DEF z
  <2>3. Nearly(z, N, {})
    BY <1>8, <2>2 DEF Nearly, Pointed, Listed
  <2>4. KeyboardOn(z)
    BY <2>2 DEF KeyboardOn
  <2>5. Framed(z, N)
    BY <1>8, <2>2 DEF Framed, IsMenu, SameWindows
  <2> QED
    BY <1>9, <2>1, <2>2, <2>3, <2>4, <2>5 DEF Good, SameWindows, e
<1>11. CASE f # None /\ d.focused = o
  <2>1. f = n /\ f \in N /\ e = focus_toplevel(y, n)
    BY <1>2, <1>4, <1>5, <1>9, <1>11 DEF f
  <2>2. LET g == focus_toplevel(y, n)
        IN Good(g, N) /\ SameWindows(g, y) /\ (Framed(y, N) => Framed(g, N))
    BY <1>8, <1>9, <2>1, FocusGood
  <2> QED
    BY <1>8, <1>9, <2>1, <2>2 DEF SameWindows, e
<1>12. CASE f # None /\ d.focused # o
  <2>1. f = d.focused /\ e = y
    BY <1>2, <1>4, <1>9, <1>12 DEF f
  <2>2. KeyboardOn(y)
    BY <1>9, <2>1 DEF KeyboardOn, Good
  <2> QED
    BY <1>8, <1>9, <2>1, <2>2 DEF Good, e
<1> QED
  BY <1>10, <1>11, <1>12

----------------------------------------------------------------------------
(* Objects come and go. *)

\* Nothing points to an object that is freed (window_xwayland.c:407-428).
LEMMA FreeGood ==
  ASSUME NEW d, NEW M \in SUBSET Object, NEW o \in Object, o \notin M,
         Good(d, M), Framed(d, M)
  PROVE  LET e == Free(d, o)
         IN /\ Good(e, M) /\ Framed(e, M)
            /\ e.stage = d.stage /\ e.redirect = d.redirect /\ e.data = d.data
            /\ e.surface = [d.surface EXCEPT ![o] = None] /\ e.listens = d.listens \ {o}
            /\ e.fullscreen = d.fullscreen /\ e.handle = d.handle /\ e.leaf = d.leaf
            /\ e.focused = d.focused /\ e.last_focused = d.last_focused
            /\ e.fullscreen_window = d.fullscreen_window
<1> DEFINE u == Unlink(d, o)
           sf == [d.surface EXCEPT ![o] = None]
           e == Free(d, o)
<1>1. d \in Desk /\ IsInjective(d.toplevels) /\ IsInjective(d.floats)
  BY DEF Good, Nearly
<1>2. /\ u = [d EXCEPT !.toplevels = u.toplevels, !.floats = u.floats]
      /\ u \in Desk /\ IsInjective(u.toplevels) /\ IsInjective(u.floats)
      /\ ToSet(u.toplevels) = ToSet(d.toplevels) \ {o}
      /\ ToSet(u.floats) = ToSet(d.floats) \ {o}
  <2>1. Unlinked(u, d, o)
    BY <1>1, UnlinkLists
  <2> HIDE DEF u
  <2> QED
    BY <2>1 DEF Unlinked
<1>3. sf \in [Object -> XSurface \cup {None}] /\ \A p \in M : sf[p] = d.surface[p]
  BY <1>1 DEF Desk
<1>4. u.surface = d.surface /\ u.fullscreen = d.fullscreen
  BY <1>1, <1>2 DEF Desk
<1>5. e = [u EXCEPT !.surface = sf, !.listens = @ \ {o},
                    !.border_shown = @ \ {o}, !.disabled = @ \ {o},
                    !.floating = @ \ {o}, !.fullscreen = @ \ {o},
                    !.saved_floating = @ \ {o}]
  BY <1>2, <1>4 DEF Free, Desk
<1>6. o \notin d.fullscreen /\ o \notin Listed(d)
  BY DEF Good, Nearly, Pointed
<1> HIDE DEF u, e, sf
<1>7. /\ u.stage = d.stage /\ u.redirect = d.redirect /\ u.data = d.data
      /\ u.listens = d.listens /\ u.focused = d.focused /\ u.last_focused = d.last_focused
      /\ u.fullscreen_window = d.fullscreen_window /\ u.grabbed = d.grabbed
      /\ u.keyboard = d.keyboard /\ u.saved_floating = d.saved_floating
      /\ u.leaf = d.leaf /\ u.handle = d.handle /\ u.disabled = d.disabled
      /\ u.border_shown = d.border_shown
  BY <1>1, <1>2 DEF Desk
<1>8. /\ e \in Desk /\ e.toplevels = u.toplevels /\ e.floats = u.floats
      /\ e.stage = u.stage /\ e.redirect = u.redirect /\ e.data = u.data
      /\ e.surface = sf /\ e.listens = u.listens \ {o}
      /\ e.focused = u.focused /\ e.last_focused = u.last_focused
      /\ e.fullscreen_window = u.fullscreen_window /\ e.grabbed = u.grabbed
      /\ e.keyboard = u.keyboard /\ e.fullscreen = u.fullscreen \ {o}
      /\ e.saved_floating = u.saved_floating \ {o} /\ e.leaf = u.leaf /\ e.handle = u.handle
      /\ e.border_shown = u.border_shown \ {o} /\ e.disabled = u.disabled \ {o}
  BY <1>2, <1>3, <1>5 DEF Desk
<1>9. Listed(e) = Listed(d) /\ e.fullscreen = d.fullscreen
  BY <1>2, <1>4, <1>6, <1>8 DEF Listed
<1>10. Nearly(e, M, {})
  BY <1>2, <1>7, <1>8, <1>9 DEF Good, Nearly, Pointed
<1>11. KeyboardOn(e)
  BY <1>3, <1>7, <1>8 DEF Good, Nearly, Pointed, KeyboardOn
<1>12. Framed(e, M)
  BY <1>3, <1>7, <1>8, <1>9 DEF Framed, IsMenu
<1> QED
  BY <1>7, <1>8, <1>9, <1>10, <1>11, <1>12 DEF Good, sf, e


\* These objects, and p if a window in stage st has one of the stages.
With(os, stages, st, p) == os \cup IF st \in stages THEN {p} ELSE {}

\* e is what a handler makes of d for o, whose surface is in stage st: it is among
\* the objects pointed at if that is mapped, and hears of a surface it has.
Got(e, d, M, o, st) ==
  LET N == With(M, {"mapped"}, st, o)
  IN /\ Good(e, N) /\ Framed(e, N) /\ e.stage = d.stage /\ e.redirect = d.redirect
     /\ e.listens = With(d.listens, {"associated", "mapped"}, st, o)

\* e is d where s is known by o.
Made(e, d, s, o) ==
  \E fl \in SUBSET Object : e = [d EXCEPT !.data[s] = o, !.surface[o] = s, !.floating = fl]

\* The steps that lead to one.
Associated(e, d, o, st) ==
  /\ st = d.stage[d.surface[o]]
  /\ \E tile \in BOOLEAN : e = xwayland_handle_associate(d, o, tile)
Recreated(e, d, s, o, st) ==
  /\ st = d.stage[s]
  /\ \E tile \in BOOLEAN : e = server_new_xwayland_surface(d, s, o, tile)

\* The window is known by its new object, which is not pointed at yet.
LEMMA MakeGood ==
  ASSUME NEW d, NEW M \in SUBSET Object, NEW o \in Object, o \notin M, NEW s \in XSurface,
         Good(d, M), Framed(d, M), NEW e, Made(e, d, s, o)
  PROVE  /\ Good(e, M) /\ Framed(e, M)
         /\ e.stage = d.stage /\ e.redirect = d.redirect
         /\ e.data = [d.data EXCEPT ![s] = o]
         /\ e.surface = [d.surface EXCEPT ![o] = s] /\ e.listens = d.listens
<1> DEFINE dt == [d.data EXCEPT ![s] = o]
           sf == [d.surface EXCEPT ![o] = s]
<1>1. d \in Desk
  BY DEF Good, Nearly
<1> PICK fl \in SUBSET Object :
       e = [d EXCEPT !.data[s] = o, !.surface[o] = s, !.floating = fl]
  BY DEF Made
<1>2. /\ dt \in [XSurface -> Object \cup {None}]
      /\ sf \in [Object -> XSurface \cup {None}] /\ \A p \in M : sf[p] = d.surface[p]
  BY <1>1 DEF Desk
<1>3. e = [d EXCEPT !.data = dt, !.surface = sf, !.floating = fl]
  BY <1>1 DEF Desk
<1> HIDE DEF dt, sf
<1>4. /\ e \in Desk /\ e.stage = d.stage /\ e.redirect = d.redirect /\ e.data = dt
      /\ e.surface = sf /\ e.listens = d.listens
      /\ e.toplevels = d.toplevels /\ e.floats = d.floats /\ e.focused = d.focused
      /\ e.last_focused = d.last_focused /\ e.fullscreen_window = d.fullscreen_window
      /\ e.grabbed = d.grabbed /\ e.keyboard = d.keyboard /\ e.fullscreen = d.fullscreen
      /\ e.saved_floating = d.saved_floating /\ e.leaf = d.leaf /\ e.handle = d.handle
      /\ e.border_shown = d.border_shown /\ e.disabled = d.disabled
  <2>1. e \in Desk
    <3>1. fl \in SUBSET Object
      OBVIOUS
    <3> DEFINE g == [d EXCEPT !.data = dt, !.surface = sf]
    <3>2. g \in Desk
      BY <1>1, <1>2 DEF Desk
    <3>3. e = [g EXCEPT !.floating = fl]
      BY <1>1, <1>3 DEF Desk
    <3> HIDE DEF g
    <3> QED
      BY <3>1, <3>2, <3>3 DEF Desk
  <2>2. /\ e.stage = d.stage /\ e.redirect = d.redirect /\ e.data = dt
        /\ e.surface = sf /\ e.listens = d.listens
        /\ e.toplevels = d.toplevels /\ e.floats = d.floats /\ e.focused = d.focused
        /\ e.last_focused = d.last_focused
    BY <1>1, <1>3 DEF Desk
  <2>3. /\ e.fullscreen_window = d.fullscreen_window
        /\ e.grabbed = d.grabbed /\ e.keyboard = d.keyboard /\ e.fullscreen = d.fullscreen
        /\ e.saved_floating = d.saved_floating /\ e.leaf = d.leaf /\ e.handle = d.handle
        /\ e.border_shown = d.border_shown /\ e.disabled = d.disabled
    BY <1>1, <1>3 DEF Desk
  <2> QED
    BY <2>1, <2>2, <2>3
<1>5. Nearly(e, M, {})
  BY <1>4 DEF Good, Nearly, Pointed, Listed
<1>6. KeyboardOn(e)
  BY <1>2, <1>4 DEF Good, Nearly, Pointed, KeyboardOn
<1>7. Framed(e, M)
  BY <1>2, <1>4 DEF Framed, IsMenu
<1> QED
  BY <1>4, <1>5, <1>6, <1>7 DEF Good, dt, sf

\* The object hears of its surface, or does not; nothing else.
LEMMA ListenGood ==
  ASSUME NEW d, NEW M, Good(d, M), NEW ls \in SUBSET Object
  PROVE  LET e == [d EXCEPT !.listens = ls]
         IN /\ Good(e, M) /\ (Framed(d, M) => Framed(e, M))
            /\ e.stage = d.stage /\ e.redirect = d.redirect /\ e.data = d.data
            /\ e.surface = d.surface /\ e.listens = ls
<1> DEFINE e == [d EXCEPT !.listens = ls]
<1>1. /\ e \in Desk /\ e.stage = d.stage /\ e.redirect = d.redirect /\ e.data = d.data
      /\ e.surface = d.surface /\ e.listens = ls
      /\ e.toplevels = d.toplevels /\ e.floats = d.floats /\ e.focused = d.focused
      /\ e.last_focused = d.last_focused /\ e.fullscreen_window = d.fullscreen_window
      /\ e.grabbed = d.grabbed /\ e.keyboard = d.keyboard /\ e.fullscreen = d.fullscreen
      /\ e.saved_floating = d.saved_floating /\ e.leaf = d.leaf /\ e.handle = d.handle
      /\ e.border_shown = d.border_shown /\ e.disabled = d.disabled
  BY DEF Good, Nearly, Desk
<1> HIDE DEF e
<1>2. Nearly(e, M, {})
  BY <1>1 DEF Good, Nearly, Pointed, Listed
<1>3. KeyboardOn(e) /\ (Framed(d, M) => Framed(e, M))
  BY <1>1 DEF Good, KeyboardOn, Framed, IsMenu
<1> QED
  BY <1>1, <1>2, <1>3 DEF Good, e

\* A surface that is mapped is mapped at once (window_xwayland.c:367-383).
LEMMA AssociateGood ==
  ASSUME Constants, NEW d, NEW M \in SUBSET Object, NEW o \in Object, o \notin M,
         Good(d, M), Framed(d, M), NEW e, NEW st, Associated(e, d, o, st)
  PROVE  Got(e, d, M, o, st) /\ e.data = d.data /\ e.surface = d.surface
<1> DEFINE h == [d EXCEPT !.listens = @ \cup {o}]
<1> PICK tile \in BOOLEAN : e = xwayland_handle_associate(d, o, tile)
  BY DEF Associated
<1>1. e = CASE st = "mapped" -> xwayland_toplevel_map(h, o, tile)
            [] st = "associated" -> h
            [] OTHER -> d
  BY DEF xwayland_handle_associate, Associated
<1>2. d \in Desk /\ d.listens \cup {o} \in SUBSET Object
  BY DEF Good, Nearly, Desk
<1>3. /\ Good(h, M) /\ Framed(h, M)
      /\ h.stage = d.stage /\ h.redirect = d.redirect /\ h.data = d.data
      /\ h.surface = d.surface /\ h.listens = d.listens \cup {o}
  BY <1>2, ListenGood
<1> HIDE DEF h
<1>4. CASE st = "mapped"
  <2>1. e = xwayland_toplevel_map(h, o, tile)
    BY <1>1, <1>4
  <2>2. Good(e, M \cup {o}) /\ Framed(e, M \cup {o}) /\ SameWindows(e, h)
    BY <1>3, <2>1, MapGood
  <2> QED
    BY <1>3, <1>4, <2>2 DEF SameWindows, With, Got
<1>5. CASE st = "associated"
  <2>1. e = h
    BY <1>1, <1>5
  <2>2. With(M, {"mapped"}, st, o) = M
    BY <1>5 DEF With
  <2> QED
    BY <1>3, <1>5, <2>1, <2>2 DEF With, Got
<1>6. CASE st \notin {"associated", "mapped"}
  <2>1. e = d
    BY <1>1, <1>6
  <2>2. /\ With(M, {"mapped"}, st, o) = M
        /\ With(d.listens, {"associated", "mapped"}, st, o) = d.listens
    BY <1>6 DEF With
  <2> QED
    BY <2>1, <2>2 DEF Got
<1> QED
  BY <1>4, <1>5, <1>6

\* Both, for a window that gets another object (window_xwayland.c:434-492).
LEMMA NewGood ==
  ASSUME Constants, NEW d, NEW M \in SUBSET Object, NEW o \in Object, o \notin M,
         NEW s \in XSurface, Good(d, M), Framed(d, M),
         NEW e, NEW st, Recreated(e, d, s, o, st)
  PROVE  /\ Got(e, d, M, o, st)
         /\ e.data = [d.data EXCEPT ![s] = o]
         /\ e.surface = [d.surface EXCEPT ![o] = s]
<1> DEFINE fl == IF s \in d.redirect THEN d.floating \cup {o} ELSE d.floating
           n == [d EXCEPT !.data[s] = o, !.surface[o] = s, !.floating = fl]
<1>1. d \in Desk /\ fl \in SUBSET Object
  BY DEF Good, Nearly, Desk
<1>2. \E tile \in BOOLEAN : e = xwayland_handle_associate(n, o, tile)
  BY <1>1 DEF server_new_xwayland_surface, Desk, Recreated
<1>3. Made(n, d, s, o)
  BY <1>1 DEF Made
<1> HIDE DEF fl, n
<1>4. /\ Good(n, M) /\ Framed(n, M)
      /\ n.stage = d.stage /\ n.redirect = d.redirect
      /\ n.data = [d.data EXCEPT ![s] = o]
      /\ n.surface = [d.surface EXCEPT ![o] = s] /\ n.listens = d.listens
  BY <1>3, MakeGood
<1>5. Associated(e, n, o, st)
  <2>1. n.surface[o] = s
    BY <1>1, <1>4 DEF Desk
  <2> QED
    BY <1>2, <1>4, <2>1 DEF Associated, Recreated
<1>6. Got(e, n, M, o, st) /\ e.data = n.data /\ e.surface = n.surface
  BY <1>4, <1>5, AssociateGood
<1> QED
  BY <1>4, <1>6 DEF Got

\* An interactive move or resize starts, on o, or ends.
LEMMA GrabGood ==
  ASSUME NEW d, NEW M \in SUBSET Object, NEW g \in M \cup {None}, Good(d, M), Framed(d, M)
  PROVE  LET e == [d EXCEPT !.grabbed = g]
         IN Good(e, M) /\ Framed(e, M) /\ SameWindows(e, d)
<1> DEFINE e == [d EXCEPT !.grabbed = g]
<1>1. d \in Desk /\ g \in Object \cup {None}
  BY DEF Good, Nearly
<1>2. /\ e \in Desk /\ e.grabbed = g /\ SameWindows(e, d)
      /\ e.toplevels = d.toplevels /\ e.floats = d.floats /\ e.focused = d.focused
      /\ e.last_focused = d.last_focused /\ e.fullscreen_window = d.fullscreen_window
      /\ e.keyboard = d.keyboard /\ e.fullscreen = d.fullscreen
      /\ e.saved_floating = d.saved_floating /\ e.leaf = d.leaf /\ e.handle = d.handle
      /\ e.border_shown = d.border_shown /\ e.disabled = d.disabled
  BY <1>1 DEF Desk, SameWindows
<1> HIDE DEF e
<1>3. Nearly(e, M, {})
  BY <1>2 DEF Good, Nearly, Pointed, Listed
<1>4. KeyboardOn(e) /\ Framed(e, M)
  BY <1>2 DEF Good, KeyboardOn, Framed, IsMenu, SameWindows
<1> QED
  BY <1>2, <1>3, <1>4 DEF Good, e

\* The object of a window that is gone (window_xwayland.c:236-277).
LEMMA DestroyGood ==
  ASSUME NEW d, NEW M \in SUBSET Object, NEW o \in Object, o \notin M,
         Good(d, M), Framed(d, M), Constants
  PROVE  LET e == xwayland_toplevel_destroy(d, o)
         IN /\ Good(e, M) /\ Framed(e, M)
            /\ e.stage = d.stage /\ e.redirect = d.redirect /\ e.data = d.data
            /\ e.surface = [d.surface EXCEPT ![o] = None] /\ e.listens = d.listens \ {o}
<1> DEFINE c == reset_cursor_mode(d, o)
           f == Free(c, o)
           e == xwayland_toplevel_destroy(d, o)
<1>1. d \in Desk /\ o \notin {d.focused, d.last_focused, d.fullscreen_window, d.grabbed}
      /\ o \notin d.handle /\ o \notin d.leaf
  BY DEF Good, Nearly, Pointed, Constants
<1>2. c = d
  BY <1>1 DEF reset_cursor_mode, Desk
<1>3. e = IF o \in d.floating \cup d.fullscreen
          THEN [f EXCEPT
                 !.focused = IF @ = o THEN None ELSE @,
                 !.last_focused = IF @ = o THEN None ELSE @,
                 !.fullscreen_window = IF @ = o THEN None ELSE @, !.handle = @ \ {o}]
          ELSE [[f EXCEPT
                 !.focused = IF @ = o THEN None ELSE @,
                 !.last_focused = IF @ = o THEN None ELSE @,
                 !.fullscreen_window = IF @ = o THEN None ELSE @, !.handle = @ \ {o}]
                EXCEPT !.leaf = @ \ {o}]
  BY DEF xwayland_toplevel_destroy
<1> HIDE DEF c, e
<1>4. /\ Good(f, M) /\ Framed(f, M)
      /\ f.stage = d.stage /\ f.redirect = d.redirect /\ f.data = d.data
      /\ f.surface = [d.surface EXCEPT ![o] = None] /\ f.listens = d.listens \ {o}
      /\ f.fullscreen = d.fullscreen /\ f.handle = d.handle /\ f.leaf = d.leaf
      /\ f.focused = d.focused /\ f.last_focused = d.last_focused
      /\ f.fullscreen_window = d.fullscreen_window
  BY <1>2, FreeGood
<1> HIDE DEF f
<1>5. f \in Desk
  BY <1>4 DEF Good, Nearly
<1>6. f.handle \ {o} = f.handle /\ f.leaf \ {o} = f.leaf
  BY <1>1, <1>4
<1> DEFINE n == [f EXCEPT
                  !.focused = IF @ = o THEN None ELSE @,
                  !.last_focused = IF @ = o THEN None ELSE @,
                  !.fullscreen_window = IF @ = o THEN None ELSE @, !.handle = @ \ {o}]
           l == [n EXCEPT !.leaf = @ \ {o}]
<1>7. n = f
  BY <1>1, <1>4, <1>5, <1>6 DEF Desk
<1> HIDE DEF n
<1>8. l = f
  BY <1>5, <1>6, <1>7 DEF Desk
<1>9. e = f
  <2>1. e = n \/ e = l
    BY <1>3 DEF n
  <2> HIDE DEF l
  <2> QED
    BY <1>7, <1>8, <2>1
<1> QED
  BY <1>4, <1>9 DEF e

----------------------------------------------------------------------------
(* Windows and their objects. *)

\* An object in use by a window in one of these stages is that window's.
LEMMA OfMeans ==
  ASSUME NEW d \in Desk, Named(d), NEW S, "gone" \notin S, NEW o \in Of(d, S)
  PROVE  /\ o \in Object /\ d.surface[o] \in XSurface
         /\ d.stage[d.surface[o]] \in S /\ d.data[d.surface[o]] = o
<1>1. PICK s \in XSurface : d.stage[s] \in S /\ o = d.data[s]
  BY DEF Of
<1>2. d.stage[s] # "gone"
  BY <1>1
<1> QED
  BY <1>1, <1>2 DEF Named

\* e is d with s in stage st and known by p.
Turned(e, d, s, st, p) ==
  /\ e.stage = [d.stage EXCEPT ![s] = st] /\ e.data = [d.data EXCEPT ![s] = p]
  /\ e.surface = [o \in Object |-> IF o = p THEN s
                                   ELSE IF o = d.data[s] THEN None ELSE d.surface[o]]

\* Such a step keeps names, and changes only what it says of the objects in a stage.
LEMMA TurnedNames ==
  ASSUME Constants, NEW d \in Desk, Named(d), NEW e, NEW s \in XSurface, NEW st, NEW p,
         Turned(e, d, s, st, p), st = "gone" => p = None, st # "gone" => p \in Object,
         p \notin Live(d) \ {d.data[s]}
  PROVE  /\ Named(e)
         /\ \A S : "gone" \notin S =>
              Of(e, S) = With(Of(d, S) \ {d.data[s]}, S, st, p)
<1>1. /\ d.stage \in [XSurface -> Stages] /\ d.data \in [XSurface -> Object \cup {None}]
      /\ d.surface \in [Object -> XSurface \cup {None}]
  BY DEF Desk
<1>2. /\ e.stage[s] = st /\ e.data[s] = p
      /\ \A t \in XSurface \ {s} : e.stage[t] = d.stage[t] /\ e.data[t] = d.data[t]
      /\ \A o \in Object :
           e.surface[o] = IF o = p THEN s ELSE IF o = d.data[s] THEN None ELSE d.surface[o]
  BY <1>1 DEF Turned
<1>3. ASSUME NEW t \in XSurface \ {s}, d.stage[t] # "gone"
      PROVE  /\ d.data[t] \in Object /\ d.data[t] # p /\ d.data[t] # d.data[s]
             /\ d.surface[d.data[t]] = t
  <2>1. d.data[t] \in Object /\ d.surface[d.data[t]] = t
    BY <1>3 DEF Named
  <2>2. d.data[t] # d.data[s]
    <3>1. CASE d.stage[s] = "gone"
      BY <2>1, <3>1 DEF Named, Constants
    <3>2. CASE d.stage[s] # "gone"
      BY <2>1, <3>2 DEF Named
    <3> QED
      BY <3>1, <3>2
  <2>3. d.data[t] \in Live(d)
    BY <2>1 DEF Live, Constants
  <2> QED
    BY <2>1, <2>2, <2>3
<1>4. ASSUME NEW t \in XSurface
      PROVE  /\ e.stage[t] = "gone" => e.data[t] = None
             /\ e.stage[t] # "gone" => e.data[t] \in Object /\ e.surface[e.data[t]] = t
  <2>1. CASE t = s
    BY <1>2, <2>1
  <2>2. CASE t # s
    BY <1>2, <1>3, <2>2 DEF Named
  <2> QED
    BY <2>1, <2>2
<1>5. ASSUME NEW o \in Live(e) PROVE e.data[e.surface[o]] = o
  <2>1. o \in Object /\ e.surface[o] # None
    BY DEF Live
  <2>2. CASE o = p
    BY <1>2, <2>1, <2>2
  <2>3. CASE o # p
    <3>1. o # d.data[s] /\ e.surface[o] = d.surface[o]
      BY <1>2, <2>1, <2>3
    <3>2. d.surface[o] \in XSurface /\ o \in Live(d)
      BY <1>1, <2>1, <3>1 DEF Live
    <3>3. d.data[d.surface[o]] = o
      BY <3>2 DEF Named
    <3> QED
      BY <1>2, <3>1, <3>2, <3>3
  <2> QED
    BY <2>2, <2>3
<1>6. ASSUME NEW S, "gone" \notin S
      PROVE  Of(e, S) = With(Of(d, S) \ {d.data[s]}, S, st, p)
  <2>1. ASSUME NEW o \in Of(e, S)
        PROVE  o \in With(Of(d, S) \ {d.data[s]}, S, st, p)
    <3>1. PICK t \in XSurface : e.stage[t] \in S /\ o = e.data[t]
      BY DEF Of
    <3>2. CASE t = s
      BY <1>2, <3>1, <3>2 DEF With
    <3>3. CASE t # s
      <4>1. d.stage[t] \in S /\ o = d.data[t] /\ d.stage[t] # "gone"
        BY <1>2, <1>6, <3>1, <3>3
      <4> QED
        BY <1>3, <3>3, <4>1 DEF Of, With
    <3> QED
      BY <3>2, <3>3
  <2>2. ASSUME NEW o \in Of(d, S) \ {d.data[s]} PROVE o \in Of(e, S)
    <3>1. PICK t \in XSurface : d.stage[t] \in S /\ o = d.data[t]
      BY DEF Of
    <3>2. t # s
      BY <3>1
    <3> QED
      BY <1>2, <3>1, <3>2 DEF Of
  <2>3. ASSUME st \in S PROVE p \in Of(e, S)
    BY <1>2, <2>3 DEF Of
  <2> QED
    BY <2>1, <2>2, <2>3 DEF With
<1> QED
  BY <1>4, <1>5, <1>6 DEF Named

\* It keeps the invariant, when it does with pointers, frames and listeners what it
\* says of the window.
LEMMA TurnedRight ==
  ASSUME Constants, NEW d, Right(d), NEW e, NEW s \in XSurface, NEW st, NEW p,
         Turned(e, d, s, st, p), st = "gone" => p = None, st # "gone" => p \in Object,
         p \notin Live(d) \ {d.data[s]},
         NEW M, M = With(Of(d, {"mapped"}) \ {d.data[s]}, {"mapped"}, st, p),
         Good(e, M), Framed(e, M),
         e.listens = With(d.listens \ {d.data[s]}, {"associated", "mapped"}, st, p)
  PROVE  Right(e)
<1>1. d \in Desk /\ Named(d)
  BY DEF Right, Good, Nearly
<1>2. /\ Named(e)
      /\ \A S : "gone" \notin S =>
           Of(e, S) = With(Of(d, S) \ {d.data[s]}, S, st, p)
  BY <1>1, TurnedNames
<1>3. Of(e, {"mapped"}) = M
  BY <1>2
<1>4. Of(e, {"associated", "mapped"}) = e.listens
  BY <1>2 DEF Right
<1> QED
  BY <1>2, <1>3, <1>4 DEF Right

\* A step that leaves windows and their objects alone.
LEMMA SameRight ==
  ASSUME NEW d, Right(d), NEW e, SameWindows(e, d),
         Good(e, Of(d, {"mapped"})), Framed(e, Of(d, {"mapped"}))
  PROVE  Right(e)
<1>1. \A S : Of(e, S) = Of(d, S)
  BY DEF Of, SameWindows
<1>2. Named(e)
  BY DEF Right, Named, Live, SameWindows
<1> QED
  BY <1>1, <1>2 DEF Right, SameWindows

----------------------------------------------------------------------------
(* What the X server and its clients do. *)

\* What the invariant says of a window that is there.
LEMMA WindowHas ==
  ASSUME Constants, NEW d, Right(d), NEW s \in XSurface
  PROVE  LET M == Of(d, {"mapped"})
         IN /\ d \in Desk /\ M \in SUBSET Object /\ M \subseteq Live(d)
            /\ d.stage[s] # "gone" => d.data[s] \in Object /\ d.surface[d.data[s]] = s
            /\ d.data[s] \in M <=> d.stage[s] = "mapped"
            /\ d.data[s] \in d.listens <=> d.stage[s] \in {"associated", "mapped"}
            /\ \A o \in M : o # d.data[s] => d.surface[o] # s
<1> DEFINE M == Of(d, {"mapped"})
<1>1. d \in Desk /\ Named(d)
  BY DEF Right, Good, Nearly
<1>2. d.stage[s] # "gone" => d.data[s] \in Object /\ d.surface[d.data[s]] = s
  BY <1>1 DEF Named
<1>3. ASSUME NEW S, "gone" \notin S PROVE d.data[s] \in Of(d, S) <=> d.stage[s] \in S
  <2>1. ASSUME d.data[s] \in Of(d, S) PROVE d.stage[s] \in S
    <3>1. /\ d.data[s] \in Object /\ d.surface[d.data[s]] \in XSurface
          /\ d.stage[d.surface[d.data[s]]] \in S
      BY <1>1, <1>3, <2>1, OfMeans
    <3>2. d.stage[s] # "gone"
      BY <1>1, <3>1 DEF Named, Constants
    <3> QED
      BY <1>2, <3>1, <3>2
  <2> QED
    BY <2>1 DEF Of
<1>4. ASSUME NEW o \in M
      PROVE  o \in Object /\ o \in Live(d) /\ (o # d.data[s] => d.surface[o] # s)
  <2>1. o \in Object /\ d.surface[o] \in XSurface /\ d.data[d.surface[o]] = o
    BY <1>1, OfMeans
  <2> QED
    BY <2>1 DEF Live, Constants
<1>5. d.data[s] \in M <=> d.stage[s] = "mapped"
  BY <1>3
<1>6. d.data[s] \in d.listens <=> d.stage[s] \in {"associated", "mapped"}
  <2>1. d.listens = Of(d, {"associated", "mapped"})
    BY DEF Right
  <2> QED
    BY <1>3, <2>1
<1> QED
  BY <1>1, <1>2, <1>4, <1>5, <1>6

\* e is d with what wlroots keeps of window s changed; the keyboard may leave a
\* surface that goes.
Changed(e, d, s, stage, data, redirect, keyboard) ==
  /\ e = [d EXCEPT !.stage = stage, !.data = data, !.redirect = redirect,
                   !.keyboard = keyboard]
  /\ stage \in [XSurface -> Stages] /\ data \in [XSurface -> Object \cup {None}]
  /\ redirect \in SUBSET XSurface /\ keyboard \in {d.keyboard, None}
  /\ \A t \in XSurface \ {s} : t \in redirect <=> t \in d.redirect

\* Pointers are where they were then.
LEMMA WlrootsGood ==
  ASSUME Constants, NEW d, Right(d), NEW s \in XSurface, NEW e,
         NEW stage, NEW data, NEW redirect, NEW keyboard,
         Changed(e, d, s, stage, data, redirect, keyboard),
         NEW M, M = Of(d, {"mapped"})
  PROVE  /\ e.stage = stage /\ e.data = data /\ e.redirect = redirect
         /\ e.surface = d.surface /\ e.listens = d.listens /\ e.floating = d.floating
         /\ Good(e, M) /\ Framed(e, M \ {d.data[s]})
         /\ redirect = d.redirect => Framed(e, M)
<1> USE DEF Changed
<1>1. d \in Desk /\ Good(d, M) /\ Framed(d, M)
  BY DEF Right, Good, Nearly
<1>2. keyboard \in XSurface \cup {None} /\ d.surface \in [Object -> XSurface \cup {None}]
  BY <1>1 DEF Desk
<1>3. M \subseteq Object /\ \A o \in M : o # d.data[s] => d.surface[o] # s
  BY WindowHas
<1>4. /\ e \in Desk /\ e.stage = stage /\ e.data = data /\ e.redirect = redirect
      /\ e.surface = d.surface /\ e.listens = d.listens
      /\ e.toplevels = d.toplevels /\ e.floats = d.floats /\ e.focused = d.focused
      /\ e.last_focused = d.last_focused /\ e.fullscreen_window = d.fullscreen_window
      /\ e.grabbed = d.grabbed /\ e.keyboard = keyboard /\ e.fullscreen = d.fullscreen
      /\ e.saved_floating = d.saved_floating /\ e.leaf = d.leaf /\ e.handle = d.handle
      /\ e.border_shown = d.border_shown /\ e.disabled = d.disabled
      /\ e.floating = d.floating
  BY <1>1, <1>2 DEF Desk
<1> HIDE DEF Changed
<1>5. Nearly(e, M, {})
  BY <1>1, <1>4 DEF Good, Nearly, Pointed, Listed
<1>6. KeyboardOn(e)
  BY <1>1, <1>4 DEF Good, KeyboardOn, Changed
<1>7. redirect = d.redirect => Framed(e, M)
  BY <1>1, <1>4 DEF Framed, IsMenu
<1>8. Framed(e, M \ {d.data[s]})
  <2>1. SUFFICES ASSUME d.fullscreen = {},
                        NEW o \in (d.border_shown \cap M) \ d.disabled, o # d.data[s]
                 PROVE  o = d.focused /\ ~ IsMenu(e, o)
    BY <1>4 DEF Framed
  <2>2. o = d.focused /\ ~ IsMenu(d, o)
    BY <1>1, <2>1 DEF Framed
  <2>3. d.surface[o] \notin d.redirect /\ d.surface[o] # s
        /\ d.surface[o] \in XSurface \cup {None}
    BY <1>2, <1>3, <2>1, <2>2 DEF IsMenu
  <2>4. d.surface[o] \notin redirect
    BY <2>3 DEF Constants, Changed
  <2> QED
    BY <1>4, <2>2, <2>4 DEF IsMenu
<1> QED
  BY <1>4, <1>5, <1>6, <1>7, <1>8 DEF Good

\* One step of window s to stage st: its object is the one it had.
LEMMA StagedTurned ==
  ASSUME Constants, NEW d, Right(d), NEW e, NEW s \in XSurface, NEW st,
         d.stage[s] # "gone", e.stage = [d.stage EXCEPT ![s] = st], e.data = d.data,
         e.surface = d.surface
  PROVE  Turned(e, d, s, st, d.data[s])
<1>1. d \in Desk /\ d.data[s] \in Object /\ d.surface[d.data[s]] = s
  BY WindowHas
<1>2. d.data \in [XSurface -> Object \cup {None}]
      /\ d.surface \in [Object -> XSurface \cup {None}]
  BY <1>1 DEF Desk
<1>3. e.data = [d.data EXCEPT ![s] = d.data[s]]
  BY <1>2
<1>4. e.surface = [o \in Object |-> IF o = d.data[s] THEN s
                                    ELSE IF o = d.data[s] THEN None ELSE d.surface[o]]
  BY <1>1, <1>2
<1> QED
  BY <1>3, <1>4 DEF Turned

\* An X window comes (window_xwayland.c:434-492).
LEMMA NewWindowRight ==
  ASSUME Constants, Inv, NEW s \in XSurface, NEW menu \in BOOLEAN, NEW o \in Object,
         NewWindow(s, menu, o)
  PROVE  Inv'
<1> DEFINE d == xdesk
           M == Of(d, {"mapped"})
           stage == [d.stage EXCEPT ![s] = "bare"]
           redirect == IF menu THEN d.redirect \cup {s} ELSE d.redirect \ {s}
           n == [d EXCEPT !.stage = stage, !.data = d.data, !.redirect = redirect,
                          !.keyboard = d.keyboard]
           e == xdesk'
<1>1. /\ Right(d) /\ d \in Desk /\ M \in SUBSET Object /\ M \subseteq Live(d)
      /\ d.stage[s] = "gone" /\ o \notin Live(d) /\ d.data[s] \notin M
      /\ d.data[s] \notin d.listens
  BY WindowHas DEF NewWindow, Inv
<1>2. /\ d.stage \in [XSurface -> Stages] /\ d.data \in [XSurface -> Object \cup {None}]
      /\ d.surface \in [Object -> XSurface \cup {None}] /\ d.redirect \in SUBSET XSurface
  BY <1>1 DEF Desk
<1>3. stage \in [XSurface -> Stages] /\ redirect \in SUBSET XSurface /\ stage[s] = "bare"
      /\ \A t \in XSurface \ {s} : t \in redirect <=> t \in d.redirect
  BY <1>2 DEF Stages
<1>4. e = server_new_xwayland_surface(n, s, o, TRUE)
  <2>1. n = [d EXCEPT !.stage[s] = "bare",
                      !.redirect = IF menu THEN @ \cup {s} ELSE @ \ {s}]
    BY <1>1 DEF Desk
  <2> QED
    BY <2>1 DEF NewWindow
<1>5. d.data[s] = None
  BY <1>1 DEF Right, Named
<1> HIDE DEF d, stage, redirect, n, M
<1>6. Changed(n, d, s, stage, d.data, redirect, d.keyboard)
  BY <1>2, <1>3 DEF Changed, n
<1>7. M = Of(d, {"mapped"})
  BY DEF M
<1>8. /\ n.stage = stage /\ n.data = d.data /\ n.surface = d.surface
      /\ n.listens = d.listens /\ Good(n, M) /\ Framed(n, M \ {d.data[s]})
  BY <1>1, <1>6, <1>7, WlrootsGood
<1> HIDE DEF e
<1>9. M \ {d.data[s]} = M /\ o \notin M
  BY <1>1
<1>10. Framed(n, M) /\ Recreated(e, n, s, o, "bare")
  BY <1>3, <1>4, <1>8, <1>9 DEF Recreated
<1>11. /\ Got(e, n, M, o, "bare") /\ e.data = [n.data EXCEPT ![s] = o]
      /\ e.surface = [n.surface EXCEPT ![o] = s]
  BY <1>1, <1>8, <1>9, <1>10, NewGood
<1>12. /\ With(M, {"mapped"}, "bare", o) = M
       /\ With(n.listens, {"associated", "mapped"}, "bare", o) = n.listens
  BY DEF With
<1>13. /\ Good(e, M) /\ Framed(e, M) /\ e.stage = stage /\ e.data = [d.data EXCEPT ![s] = o]
      /\ e.surface = [d.surface EXCEPT ![o] = s] /\ e.listens = d.listens
  BY <1>8, <1>11, <1>12 DEF Got
<1>14. Turned(e, d, s, "bare", o)
  BY <1>2, <1>5, <1>13 DEF Turned, Constants, stage
<1>15. /\ M = With(Of(d, {"mapped"}) \ {d.data[s]}, {"mapped"}, "bare", o)
       /\ e.listens = With(d.listens \ {d.data[s]}, {"associated", "mapped"}, "bare", o)
  BY <1>1, <1>9, <1>13 DEF M, With
<1>16. Right(e)
  BY <1>1, <1>13, <1>14, <1>15, TurnedRight
<1> QED
  BY <1>16 DEF Inv, e

\* It gets a surface (window_xwayland.c:367-383).
LEMMA AssociateRight ==
  ASSUME Constants, Inv, NEW s \in XSurface, Associate(s)
  PROVE  Inv'
<1> DEFINE d == xdesk
           M == Of(d, {"mapped"})
           o == d.data[s]
           stage == [d.stage EXCEPT ![s] = "associated"]
           n == [d EXCEPT !.stage = stage, !.data = d.data, !.redirect = d.redirect,
                          !.keyboard = d.keyboard]
           e == xdesk'
<1>1. /\ Right(d) /\ d \in Desk /\ M \in SUBSET Object
      /\ d.stage[s] = "bare" /\ o \in Object /\ d.surface[o] = s /\ o \notin M
      /\ o \notin d.listens
  BY WindowHas DEF Associate, Inv
<1>2. /\ d.stage \in [XSurface -> Stages] /\ d.data \in [XSurface -> Object \cup {None}]
      /\ d.redirect \in SUBSET XSurface
  BY <1>1 DEF Desk
<1>3. stage \in [XSurface -> Stages] /\ stage[s] = "associated"
  BY <1>2 DEF Stages
<1>4. e = xwayland_handle_associate(n, o, TRUE)
  <2>1. n = [d EXCEPT !.stage[s] = "associated"]
    BY <1>1 DEF Desk
  <2> QED
    BY <2>1 DEF Associate, ObjectOf
<1> HIDE DEF d, stage, n, M
<1>5. Changed(n, d, s, stage, d.data, d.redirect, d.keyboard)
  BY <1>2, <1>3 DEF Changed, n
<1>6. M = Of(d, {"mapped"})
  BY DEF M
<1>7. /\ n.stage = stage /\ n.data = d.data /\ n.redirect = d.redirect
      /\ n.surface = d.surface /\ n.listens = d.listens /\ Good(n, M) /\ Framed(n, M)
  BY <1>1, <1>5, <1>6, WlrootsGood
<1> HIDE DEF e, o
<1>8. Associated(e, n, o, "associated")
  BY <1>1, <1>3, <1>4, <1>7 DEF Associated
<1>9. Got(e, n, M, o, "associated") /\ e.data = n.data /\ e.surface = n.surface
  BY <1>1, <1>7, <1>8, AssociateGood
<1>10. /\ With(M, {"mapped"}, "associated", o) = M
       /\ With(n.listens, {"associated", "mapped"}, "associated", o) = n.listens \cup {o}
  BY DEF With
<1>11. /\ Good(e, M) /\ Framed(e, M) /\ e.stage = stage /\ e.data = d.data
      /\ e.surface = d.surface /\ e.listens = d.listens \cup {o}
  BY <1>7, <1>9, <1>10 DEF Got
<1>12. Turned(e, d, s, "associated", o)
  BY <1>1, <1>11, StagedTurned DEF stage, o
<1>13. /\ M = With(Of(d, {"mapped"}) \ {d.data[s]}, {"mapped"}, "associated", o)
       /\ e.listens = With(d.listens \ {d.data[s]}, {"associated", "mapped"}, "associated", o)
       /\ o \notin Live(d) \ {d.data[s]}
  BY <1>1, <1>11 DEF M, With, o
<1>14. Right(e)
  BY <1>1, <1>11, <1>12, <1>13, TurnedRight
<1> QED
  BY <1>14 DEF Inv, e

\* Its surface is mapped; the object hears of it (window_xwayland.c:40-149).
LEMMA MapSurfaceRight ==
  ASSUME Constants, Inv, NEW s \in XSurface, NEW tile \in BOOLEAN, MapSurface(s, tile)
  PROVE  Inv'
<1> DEFINE d == xdesk
           M == Of(d, {"mapped"})
           N == M \cup {d.data[s]}
           o == d.data[s]
           stage == [d.stage EXCEPT ![s] = "mapped"]
           n == [d EXCEPT !.stage = stage, !.data = d.data, !.redirect = d.redirect,
                          !.keyboard = d.keyboard]
           e == xdesk'
<1>1. /\ Right(d) /\ d \in Desk /\ M \in SUBSET Object
      /\ d.stage[s] = "associated" /\ o \in Object /\ o \notin M /\ o \in d.listens
  BY WindowHas DEF MapSurface, Inv
<1>2. /\ d.stage \in [XSurface -> Stages] /\ d.data \in [XSurface -> Object \cup {None}]
      /\ d.redirect \in SUBSET XSurface
  BY <1>1 DEF Desk
<1>3. stage \in [XSurface -> Stages]
  BY <1>2 DEF Stages
<1>4. e = IF o \in n.listens THEN xwayland_toplevel_map(n, o, tile) ELSE n
  <2>1. n = [d EXCEPT !.stage[s] = "mapped"]
    BY <1>1 DEF Desk
  <2> QED
    BY <2>1 DEF MapSurface, ObjectOf
<1> HIDE DEF d, stage, n, M
<1>5. Changed(n, d, s, stage, d.data, d.redirect, d.keyboard)
  BY <1>2, <1>3 DEF Changed, n
<1>6. M = Of(d, {"mapped"})
  BY DEF M
<1>7. /\ n.stage = stage /\ n.data = d.data /\ n.redirect = d.redirect
      /\ n.surface = d.surface /\ n.listens = d.listens /\ Good(n, M)
  BY <1>1, <1>5, <1>6, WlrootsGood
<1> HIDE DEF e, o
<1>8. e = xwayland_toplevel_map(n, o, tile)
  BY <1>1, <1>4, <1>7
<1>9. Good(e, M \cup {o}) /\ Framed(e, M \cup {o}) /\ SameWindows(e, n)
  BY <1>1, <1>7, <1>8, MapGood
<1>10. Turned(e, d, s, "mapped", o)
  BY <1>1, <1>7, <1>9, StagedTurned DEF stage, o, SameWindows
<1>11. /\ N = With(Of(d, {"mapped"}) \ {d.data[s]}, {"mapped"}, "mapped", o)
      /\ e.listens = With(d.listens \ {d.data[s]}, {"associated", "mapped"}, "mapped", o)
      /\ o \notin Live(d) \ {d.data[s]} /\ N = M \cup {o}
  BY <1>1, <1>7, <1>9 DEF M, With, o, SameWindows
<1> HIDE DEF N
<1>12. Good(e, N) /\ Framed(e, N)
  BY <1>9, <1>11
<1>13. Right(e)
  BY <1>1, <1>10, <1>11, <1>12, TurnedRight
<1> QED
  BY <1>13 DEF Inv, e

\* What may be next to a window in the tree (window_xwayland.c:165-173).
LEMMA SiblingIn ==
  ASSUME NEW d, NEW M, Good(d, M), NEW o, NEW sibling \in Siblings(d, o)
  PROVE  sibling \in (M \ {o}) \cup {None}
  BY DEF Siblings, Good, Nearly, Pointed

\* It is unmapped (window_xwayland.c:151-201).
LEMMA UnmapSurfaceRight ==
  ASSUME Constants, Inv, NEW s \in XSurface, NEW sibling, UnmapSurface(s, sibling)
  PROVE  Inv'
<1> DEFINE d == xdesk
           M == Of(d, {"mapped"})
           N == M \ {d.data[s]}
           o == d.data[s]
           stage == [d.stage EXCEPT ![s] = "associated"]
           n == [d EXCEPT !.stage = stage, !.data = d.data, !.redirect = d.redirect,
                          !.keyboard = d.keyboard]
           e == xdesk'
<1>1. /\ Right(d) /\ d \in Desk /\ M \in SUBSET Object
      /\ d.stage[s] = "mapped" /\ o \in Object /\ o \in M /\ o \in d.listens
  BY WindowHas DEF UnmapSurface, Mapped, Inv
<1>2. /\ d.stage \in [XSurface -> Stages] /\ d.data \in [XSurface -> Object \cup {None}]
      /\ d.redirect \in SUBSET XSurface
  BY <1>1 DEF Desk
<1>3. stage \in [XSurface -> Stages]
  BY <1>2 DEF Stages
<1>4. e = IF o \in n.listens THEN xwayland_toplevel_unmap(n, o, sibling) ELSE n
  <2>1. n = [d EXCEPT !.stage[s] = "associated"]
    BY <1>1 DEF Desk
  <2> QED
    BY <2>1 DEF UnmapSurface, ObjectOf
<1>5. sibling \in (M \ {o}) \cup {None}
  <2>1. Good(d, M) /\ sibling \in Siblings(d, o)
    BY <1>1 DEF Right, UnmapSurface, ObjectOf
  <2> QED
    BY <2>1, SiblingIn
<1> HIDE DEF d, stage, n, M
<1>6. Changed(n, d, s, stage, d.data, d.redirect, d.keyboard)
  BY <1>2, <1>3 DEF Changed, n
<1>7. M = Of(d, {"mapped"})
  BY DEF M
<1>8. Right(d)
  BY <1>1
<1>9. /\ n.stage = stage /\ n.data = d.data /\ n.redirect = d.redirect
      /\ n.surface = d.surface /\ n.listens = d.listens /\ Good(n, M)
      /\ Framed(n, M \ {d.data[s]})
  BY <1>8, <1>6, <1>7, WlrootsGood
<1> HIDE DEF e, o
<1>10. e = xwayland_toplevel_unmap(n, o, sibling)
  BY <1>1, <1>4, <1>9
<1>11. Good(e, M \ {o}) /\ Framed(e, M \ {o}) /\ SameWindows(e, n)
  BY <1>1, <1>5, <1>9, <1>10, UnmapGood
<1>12. Turned(e, d, s, "associated", o)
  BY <1>1, <1>9, <1>11, StagedTurned DEF stage, o, SameWindows
<1>13. /\ N = With(Of(d, {"mapped"}) \ {d.data[s]}, {"mapped"}, "associated", o)
       /\ e.listens = With(d.listens \ {d.data[s]}, {"associated", "mapped"}, "associated", o)
       /\ o \notin Live(d) \ {d.data[s]} /\ N = M \ {o}
  BY <1>1, <1>9, <1>11 DEF M, With, o, SameWindows
<1> HIDE DEF N
<1>14. Good(e, N) /\ Framed(e, N)
  BY <1>11, <1>13
<1>15. Right(e)
  BY <1>1, <1>12, <1>13, <1>14, TurnedRight
<1> QED
  BY <1>15 DEF Inv, e

\* Its surface goes, and the keyboard leaves it (window_xwayland.c:385-394).
LEMMA DissociateRight ==
  ASSUME Constants, Inv, NEW s \in XSurface, Dissociate(s)
  PROVE  Inv'
<1> DEFINE d == xdesk
           M == Of(d, {"mapped"})
           o == d.data[s]
           stage == [d.stage EXCEPT ![s] = "bare"]
           keyboard == IF d.keyboard = s THEN None ELSE d.keyboard
           n == [d EXCEPT !.stage = stage, !.data = d.data, !.redirect = d.redirect,
                          !.keyboard = keyboard]
           e == xdesk'
<1>1. /\ Right(d) /\ d \in Desk /\ M \in SUBSET Object
      /\ d.stage[s] = "associated" /\ o \in Object /\ o \notin M
  BY WindowHas DEF Dissociate, Inv
<1>2. /\ d.stage \in [XSurface -> Stages] /\ d.data \in [XSurface -> Object \cup {None}]
      /\ d.redirect \in SUBSET XSurface /\ keyboard \in {d.keyboard, None}
      /\ d.listens \in SUBSET Object
  BY <1>1 DEF Desk
<1>3. stage \in [XSurface -> Stages]
  BY <1>2 DEF Stages
<1>4. e = [n EXCEPT !.listens = @ \ {o}]
  <2>1. n = [d EXCEPT !.stage[s] = "bare", !.keyboard = IF @ = s THEN None ELSE @]
    BY <1>1 DEF Desk
  <2> QED
    BY <2>1 DEF Dissociate, ObjectOf, xwayland_handle_dissociate
<1> HIDE DEF d, stage, keyboard, n, M
<1>5. Changed(n, d, s, stage, d.data, d.redirect, keyboard)
  BY <1>2, <1>3 DEF Changed, n
<1>6. M = Of(d, {"mapped"})
  BY DEF M
<1>7. /\ n.stage = stage /\ n.data = d.data /\ n.redirect = d.redirect
      /\ n.surface = d.surface /\ n.listens = d.listens /\ Good(n, M) /\ Framed(n, M)
  BY <1>1, <1>5, <1>6, WlrootsGood
<1> HIDE DEF e, o
<1> DEFINE ls == n.listens \ {o}
<1>8. ls \in SUBSET Object /\ e = [n EXCEPT !.listens = ls] /\ ls = d.listens \ {o}
  BY <1>2, <1>4, <1>7
<1> HIDE DEF ls
<1>9. /\ Good(e, M) /\ Framed(e, M) /\ e.stage = stage /\ e.data = d.data
      /\ e.surface = d.surface /\ e.listens = d.listens \ {o}
  BY <1>7, <1>8, ListenGood
<1>10. Turned(e, d, s, "bare", o)
  BY <1>1, <1>9, StagedTurned DEF stage, o
<1>11. /\ M = With(Of(d, {"mapped"}) \ {d.data[s]}, {"mapped"}, "bare", o)
      /\ e.listens = With(d.listens \ {d.data[s]}, {"associated", "mapped"}, "bare", o)
      /\ o \notin Live(d) \ {d.data[s]}
  BY <1>1, <1>9 DEF M, With, o
<1>12. Right(e)
  BY <1>1, <1>9, <1>10, <1>11, TurnedRight
<1> QED
  BY <1>12 DEF Inv, e

\* It is gone (window_xwayland.c:236-277).
LEMMA DestroyRight ==
  ASSUME Constants, Inv, NEW s \in XSurface, DestroyWindow(s)
  PROVE  Inv'
<1> DEFINE d == xdesk
           M == Of(d, {"mapped"})
           o == d.data[s]
           stage == [d.stage EXCEPT ![s] = "gone"]
           data == [d.data EXCEPT ![s] = None]
           redirect == d.redirect \ {s}
           n == [d EXCEPT !.stage = stage, !.data = data, !.redirect = redirect,
                          !.keyboard = d.keyboard]
           e == xdesk'
<1>1. /\ Right(d) /\ d \in Desk /\ M \in SUBSET Object
      /\ d.stage[s] = "bare" /\ o \in Object /\ o \notin M
  BY WindowHas DEF DestroyWindow, Inv
<1>2. /\ d.stage \in [XSurface -> Stages] /\ d.data \in [XSurface -> Object \cup {None}]
      /\ d.surface \in [Object -> XSurface \cup {None}] /\ d.redirect \in SUBSET XSurface
  BY <1>1 DEF Desk
<1>3. /\ stage \in [XSurface -> Stages] /\ data \in [XSurface -> Object \cup {None}]
      /\ redirect \in SUBSET XSurface
      /\ \A t \in XSurface \ {s} : t \in redirect <=> t \in d.redirect
  BY <1>2 DEF Stages
<1>4. e = xwayland_toplevel_destroy(n, o)
  <2>1. n = [d EXCEPT !.stage[s] = "gone", !.data[s] = None, !.redirect = @ \ {s}]
    BY <1>1 DEF Desk
  <2> QED
    BY <2>1 DEF DestroyWindow, ObjectOf
<1> HIDE DEF d, stage, data, redirect, n, M
<1>5. Changed(n, d, s, stage, data, redirect, d.keyboard)
  BY <1>2, <1>3 DEF Changed, n
<1>6. M = Of(d, {"mapped"})
  BY DEF M
<1>7. /\ n.stage = stage /\ n.data = data /\ n.surface = d.surface
      /\ n.listens = d.listens /\ Good(n, M) /\ Framed(n, M \ {d.data[s]})
  BY <1>1, <1>5, <1>6, WlrootsGood
<1>8. Framed(n, M)
  <2>1. M \ {d.data[s]} = M
    BY <1>1
  <2> QED
    BY <1>7, <2>1
<1> HIDE DEF e, o
<1>9. LET a == xwayland_toplevel_destroy(n, o)
      IN /\ Good(a, M) /\ Framed(a, M)
         /\ a.stage = n.stage /\ a.redirect = n.redirect /\ a.data = n.data
         /\ a.surface = [n.surface EXCEPT ![o] = None] /\ a.listens = n.listens \ {o}
  BY <1>1, <1>7, <1>8, DestroyGood
<1>10. /\ Good(e, M) /\ Framed(e, M) /\ e.stage = stage /\ e.data = data
      /\ e.surface = [d.surface EXCEPT ![o] = None] /\ e.listens = d.listens \ {o}
  BY <1>4, <1>7, <1>9
<1>11. e.surface = [p \in Object |-> IF p = None THEN s
                                    ELSE IF p = d.data[s] THEN None ELSE d.surface[p]]
  BY <1>2, <1>10 DEF Constants, o
<1>12. Turned(e, d, s, "gone", None)
  BY <1>10, <1>11 DEF Turned, stage, data
<1>13. /\ M = With(Of(d, {"mapped"}) \ {d.data[s]}, {"mapped"}, "gone", None)
       /\ e.listens = With(d.listens \ {d.data[s]}, {"associated", "mapped"}, "gone", None)
       /\ None \notin Live(d) \ {d.data[s]}
  BY <1>1, <1>10 DEF M, With, o, Live, Constants
<1>14. Right(e)
  BY <1>1, <1>10, <1>12, <1>13, TurnedRight
<1> QED
  BY <1>14 DEF Inv, e

\* It turns into a menu or back: the old object is unmapped, if it was mapped, and
\* freed, and a new one made (window_xwayland.c:396-432).
LEMMA SetOverrideRedirectRight ==
  ASSUME Constants, Inv, NEW s \in XSurface, NEW sibling, NEW o \in Object,
         NEW tile \in BOOLEAN, SetOverrideRedirect(s, sibling, o, tile)
  PROVE  Inv'
<1> DEFINE d == xdesk
           M == Of(d, {"mapped"})
           p == d.data[s]
           redirect == IF s \in d.redirect THEN d.redirect \ {s} ELSE d.redirect \cup {s}
           n == [d EXCEPT !.stage = d.stage, !.data = d.data, !.redirect = redirect,
                          !.keyboard = d.keyboard]
           u == Unmapped(n, s, sibling)
           c == xwayland_handle_dissociate(u, p)
           f == Free(c, p)
           R == M \ {p}
           e == xdesk'
<1>1. /\ Right(d) /\ d \in Desk /\ M \in SUBSET Object /\ M \subseteq Live(d)
      /\ d.stage[s] # "gone" /\ p \in Object /\ d.surface[p] = s
      /\ p \in M <=> d.stage[s] = "mapped"
      /\ o \notin Live(d) \ {p}
  BY WindowHas DEF SetOverrideRedirect, Inv, ObjectOf
<1>2. /\ d.stage \in [XSurface -> Stages] /\ d.data \in [XSurface -> Object \cup {None}]
      /\ d.surface \in [Object -> XSurface \cup {None}] /\ d.redirect \in SUBSET XSurface
      /\ d.listens \in SUBSET Object
  BY <1>1 DEF Desk
<1>3. /\ redirect \in SUBSET XSurface
      /\ \A t \in XSurface \ {s} : t \in redirect <=> t \in d.redirect
  BY <1>2
<1>4. sibling \in R \cup {None}
  <2>1. Good(d, M) /\ sibling \in Siblings(d, p)
    BY <1>1 DEF Right, SetOverrideRedirect, ObjectOf
  <2> QED
    BY <2>1, SiblingIn
<1>5. e = xwayland_handle_override_redirect(n, s, sibling, o, tile)
  <2>1. n = [d EXCEPT !.redirect = IF s \in @ THEN @ \ {s} ELSE @ \cup {s}]
    BY <1>1 DEF Desk
  <2> QED
    BY <2>1 DEF SetOverrideRedirect
<1> HIDE DEF d, redirect, n, M
<1>6. Changed(n, d, s, d.stage, d.data, redirect, d.keyboard)
  BY <1>2, <1>3 DEF Changed, n
<1>7. M = Of(d, {"mapped"})
  BY DEF M
<1>8. /\ n.stage = d.stage /\ n.data = d.data /\ n.redirect = redirect
      /\ n.surface = d.surface /\ n.listens = d.listens
      /\ Good(n, M) /\ Framed(n, R)
  BY <1>1, <1>6, <1>7, WlrootsGood
<1>9. e = server_new_xwayland_surface(f, s, o, tile)
  BY <1>5, <1>8 DEF xwayland_handle_override_redirect
<1>10. u = IF d.stage[s] = "mapped" THEN xwayland_toplevel_unmap(n, p, sibling) ELSE n
  BY <1>8 DEF Unmapped
<1> HIDE DEF u, e, p
<1>11. Good(u, R) /\ Framed(u, R) /\ SameWindows(u, n)
  <2>1. CASE d.stage[s] = "mapped"
    <3>1. p \in M /\ u = xwayland_toplevel_unmap(n, p, sibling)
      BY <1>1, <1>10, <2>1
    <3>2. sibling \in (M \ {p}) \cup {None}
      BY <1>4
    <3> QED
      BY <1>1, <1>8, <3>1, <3>2, UnmapGood
  <2>2. CASE d.stage[s] # "mapped"
    <3>1. u = n /\ R = M
      BY <1>1, <1>10, <2>2
    <3> QED
      BY <1>8, <3>1 DEF SameWindows
  <2> QED
    BY <2>1, <2>2
<1>12. R \in SUBSET Object /\ p \notin R /\ o \notin R
  BY <1>1
<1> HIDE DEF R
<1> DEFINE ls == u.listens \ {p}
<1>13. ls \in SUBSET Object /\ c = [u EXCEPT !.listens = ls] /\ ls = d.listens \ {p}
  BY <1>2, <1>8, <1>11 DEF SameWindows, xwayland_handle_dissociate
<1> HIDE DEF ls, c
<1>14. /\ Good(c, R) /\ Framed(c, R) /\ c.stage = d.stage /\ c.data = d.data
       /\ c.surface = d.surface /\ c.listens = d.listens \ {p}
  <2>1. /\ Good(c, R) /\ Framed(c, R) /\ c.stage = u.stage /\ c.data = u.data
        /\ c.surface = u.surface /\ c.listens = ls
    BY <1>11, <1>13, ListenGood
  <2> QED
    BY <1>8, <1>11, <1>13, <2>1 DEF SameWindows
<1>15. /\ Good(f, R) /\ Framed(f, R) /\ f.stage = c.stage /\ f.data = c.data
       /\ f.surface = [c.surface EXCEPT ![p] = None] /\ f.listens = c.listens \ {p}
  BY <1>1, <1>12, <1>14, FreeGood
<1> HIDE DEF f
<1> DEFINE st == d.stage[s]
           N == With(R, {"mapped"}, st, o)
<1>16. Recreated(e, f, s, o, st)
  BY <1>9, <1>14, <1>15 DEF Recreated
<1>17. /\ Good(e, N) /\ Framed(e, N) /\ e.stage = d.stage
       /\ e.data = [d.data EXCEPT ![s] = o]
       /\ e.surface = [[d.surface EXCEPT ![p] = None] EXCEPT ![o] = s]
       /\ e.listens = With(d.listens \ {p}, {"associated", "mapped"}, st, o)
  <2>1. /\ Got(e, f, R, o, st) /\ e.data = [f.data EXCEPT ![s] = o]
        /\ e.surface = [f.surface EXCEPT ![o] = s]
    BY <1>12, <1>15, <1>16, NewGood
  <2>2. f.listens = d.listens \ {p}
    BY <1>14, <1>15
  <2> QED
    BY <1>14, <1>15, <2>1, <2>2 DEF Got
<1>18. Turned(e, d, s, st, o)
  <2>1. e.stage = [d.stage EXCEPT ![s] = st]
    BY <1>2, <1>17
  <2>2. e.surface = [q \in Object |-> IF q = o THEN s
                                      ELSE IF q = d.data[s] THEN None ELSE d.surface[q]]
    BY <1>2, <1>17 DEF p
  <2> QED
    BY <1>17, <2>1, <2>2 DEF Turned
<1>19. /\ N = With(Of(d, {"mapped"}) \ {d.data[s]}, {"mapped"}, st, o)
       /\ e.listens = With(d.listens \ {d.data[s]}, {"associated", "mapped"}, st, o)
       /\ o \notin Live(d) \ {d.data[s]} /\ st # "gone"
  BY <1>1, <1>17 DEF M, With, p, R
<1> HIDE DEF N, st
<1>20. Right(e)
  BY <1>1, <1>17, <1>18, <1>19, TurnedRight
<1> QED
  BY <1>20 DEF Inv, e

\* What a client or a key asks of a window that is mapped.
LEMMA RequestsRight ==
  ASSUME Constants, Inv, NEW s \in XSurface,
         \/ RequestActivate(s) \/ Click(s) \/ Commit(s) \/ RequestFullscreen(s)
         \/ RequestMove(s) \/ RequestResize(s)
  PROVE  Inv'
<1> DEFINE d == xdesk
           M == Of(d, {"mapped"})
           o == d.data[s]
           e == xdesk'
<1>1. /\ Right(d) /\ d \in Desk /\ M \in SUBSET Object
      /\ d.stage[s] # "gone" => o \in Object
      /\ o \in M <=> d.stage[s] = "mapped"
      /\ Good(d, M) /\ Framed(d, M)
  BY WindowHas DEF Inv, Right
<1>2. Good(e, M) /\ Framed(e, M) /\ SameWindows(e, d)
  <2>1. CASE RequestActivate(s) \/ Click(s)
    <3>1. o \in M /\ e = focus_toplevel(d, o)
      BY <1>1, <2>1 DEF RequestActivate, Click, Managed, Mapped, ObjectOf
    <3> HIDE DEF d, M, o, e
    <3>2. LET x == focus_toplevel(d, o)
          IN Good(x, M) /\ SameWindows(x, d) /\ (Framed(d, M) => Framed(x, M))
      BY <1>1, <3>1, FocusGood DEF Good
    <3> QED
      BY <1>1, <3>1, <3>2
  <2>2. CASE Commit(s)
    <3>1. o \in Object /\ e = toplevel_update_border(d, {o})
      BY <1>1, <2>2 DEF Commit, ObjectOf
    <3> HIDE DEF d, M, o, e
    <3> QED
      BY <1>1, <3>1, UpdateOne
  <2>3. CASE RequestFullscreen(s)
    <3>1. o \in M /\ e = toggle_fullscreen(d, o)
      BY <1>1, <2>3 DEF RequestFullscreen, Mapped, ObjectOf
    <3> HIDE DEF d, M, o, e
    <3> QED
      BY <1>1, <3>1, ToggleFullscreenGood
  <2>4. CASE RequestMove(s) \/ RequestResize(s)
    <3> DEFINE x == IF o \in d.floating THEN d ELSE toggle_floating(d, o)
    <3>1. o \in M /\ e \in {[x EXCEPT !.grabbed = o], [d EXCEPT !.grabbed = o]}
      BY <1>1, <2>4 DEF RequestMove, RequestResize, Mapped, ObjectOf
    <3> HIDE DEF d, M, o, e
    <3>2. Good(x, M) /\ Framed(x, M) /\ SameWindows(x, d)
      BY <1>1, <3>1, ToggleFloatingGood DEF SameWindows
    <3> HIDE DEF x
    <3>3. CASE e = [x EXCEPT !.grabbed = o]
      <4>1. Good(e, M) /\ Framed(e, M) /\ SameWindows(e, x)
        BY <1>1, <3>1, <3>2, <3>3, GrabGood
      <4> QED
        BY <3>2, <4>1 DEF SameWindows
    <3>4. CASE e = [d EXCEPT !.grabbed = o]
      BY <1>1, <3>1, <3>4, GrabGood
    <3> QED
      BY <3>1, <3>3, <3>4
  <2> QED
    BY <2>1, <2>2, <2>3, <2>4
<1>3. Right(e)
  <2> HIDE DEF d, e
  <2> QED
    BY <1>1, <1>2, SameRight
<1> QED
  BY <1>3 DEF Inv

\* The mouse button is let go of, or a key acts on the focused window (input.c:24-32,
\* actions.c:278-288, workspace.c:282-337).
LEMMA KeysRight ==
  ASSUME Constants, Inv,
         EndGrab \/ ToggleFloating \/ ToggleFullscreen \/ workspace_cycle_next
  PROVE  Inv'
<1> DEFINE d == xdesk
           M == Of(d, {"mapped"})
           e == xdesk'
<1>1. Right(d) /\ Good(d, M) /\ Framed(d, M) /\ d \in Desk /\ M \in SUBSET Object
  <2>1. Right(d) /\ Good(d, M) /\ Framed(d, M) /\ d \in Desk /\ Named(d)
    BY DEF Inv, Right, Good, Nearly
  <2> QED
    BY <2>1 DEF Named, Of
<1>2. d.focused \in M \cup {None} /\ Listed(d) \subseteq M
  BY <1>1 DEF Good, Nearly, Pointed
<1>3. Good(e, M) /\ Framed(e, M) /\ SameWindows(e, d)
  <2>1. CASE EndGrab
    <3>1. e = [d EXCEPT !.grabbed = None]
      BY <1>1, <2>1 DEF EndGrab, reset_cursor_mode, Desk
    <3>2. None \in M \cup {None}
      OBVIOUS
    <3> HIDE DEF d, M, e
    <3> QED
      BY <1>1, <3>1, <3>2, GrabGood
  <2>2. CASE ToggleFloating
    <3>1. d.focused \in M /\ e = toggle_floating(d, d.focused)
      BY <1>2, <2>2 DEF ToggleFloating
    <3> HIDE DEF d, M, e
    <3> QED
      BY <1>1, <3>1, ToggleFloatingGood
  <2>3. CASE ToggleFullscreen
    <3>1. d.focused \in M /\ e = toggle_fullscreen(d, d.focused)
      BY <1>2, <2>3 DEF ToggleFullscreen
    <3> HIDE DEF d, M, e
    <3> QED
      BY <1>1, <3>1, ToggleFullscreenGood
  <2>4. CASE workspace_cycle_next
    <3> DEFINE all == d.toplevels \o d.floats
               at == {i \in DOMAIN all : all[i] = d.focused}
               i == CHOOSE i \in at : TRUE
               next == IF at = {} THEN 1 ELSE (i % Len(all)) + 1
               o == all[next]
    <3>1. Len(all) >= 2 /\ e = focus_toplevel(d, o)
      BY <2>4 DEF workspace_cycle_next
    <3>2. all \in Seq(Object) /\ ToSet(all) = Listed(d)
      BY <1>1, MembersConcat DEF Desk, Listed
    <3> HIDE DEF all
    <3>3. DOMAIN all = 1 .. Len(all) /\ Len(all) \in Nat
      BY <3>2, LenProperties
    <3>4. next \in DOMAIN all
      <4>1. CASE at = {}
        BY <3>1, <3>3, <4>1
      <4>2. CASE at # {}
        <5>1. i \in at
          BY <4>2
        <5>2. i \in Nat
          BY <3>3, <5>1
        <5> HIDE DEF i
        <5>3. i % Len(all) \in 0 .. Len(all) - 1
          BY <3>1, <3>3, <5>2
        <5>4. (i % Len(all)) + 1 \in 1 .. Len(all)
          BY <3>3, <5>3
        <5> QED
          BY <3>3, <4>2, <5>4
      <4> QED
        BY <4>1, <4>2
    <3> HIDE DEF next
    <3>5. o \in M
      BY <1>2, <3>2, <3>4 DEF ToSet
    <3> HIDE DEF d, M, e, o
    <3>6. LET x == focus_toplevel(d, o)
          IN Good(x, M) /\ SameWindows(x, d) /\ (Framed(d, M) => Framed(x, M))
      BY <1>1, <3>5, FocusGood DEF Good
    <3> QED
      BY <1>1, <3>1, <3>6
  <2> QED
    BY <2>1, <2>2, <2>3, <2>4
<1>4. Right(e)
  <2> HIDE DEF d, e
  <2> QED
    BY <1>1, <1>3, SameRight
<1> QED
  BY <1>4 DEF Inv

----------------------------------------------------------------------------
(* The invariant. *)

\* There is no window at first.
LEMMA InitInv ==
  ASSUME Constants, Init PROVE Inv
<1> DEFINE d == xdesk
<1>1. /\ d.stage = [s \in XSurface |-> "gone"] /\ d.data = [s \in XSurface |-> None]
      /\ d.surface = [o \in Object |-> None] /\ d.toplevels = <<>> /\ d.floats = <<>>
      /\ d.focused = None /\ d.last_focused = None /\ d.fullscreen_window = None
      /\ d.grabbed = None /\ d.keyboard = None /\ d.leaf = {} /\ d.handle = {}
      /\ d.fullscreen = {} /\ d.saved_floating = {} /\ d.listens = {} /\ d.border_shown = {}
  BY DEF Init
<1>2. d \in Desk
  BY DEF Init, Desk, Stages
<1>3. ToSet(<<>>) = {} /\ IsInjective(<<>>)
  BY DEF ToSet, IsInjective
<1> HIDE DEF d
<1>4. Of(d, {"mapped"}) = {} /\ Of(d, {"associated", "mapped"}) = {}
  BY <1>1 DEF Of
<1>5. Named(d)
  BY <1>1 DEF Named, Live
<1>6. Listed(d) = {}
  BY <1>1, <1>3 DEF Listed
<1>7. Good(d, {}) /\ Framed(d, {})
  BY <1>1, <1>2, <1>3, <1>6 DEF Good, Nearly, Pointed, KeyboardOn, Framed
<1> QED
  BY <1>1, <1>4, <1>5, <1>7 DEF Right, Inv, d

\* Every step keeps it.
LEMMA NextInv ==
  ASSUME Constants, Inv, Next PROVE Inv'
<1>1. ASSUME NEW s \in XSurface, NEW o \in Object, NEW b \in BOOLEAN, NewWindow(s, b, o)
      PROVE  Inv'
  BY <1>1, NewWindowRight
<1>2. ASSUME NEW s \in XSurface, NEW o \in Object, NEW b \in BOOLEAN,
             NEW sibling \in Object \cup {None}, SetOverrideRedirect(s, sibling, o, b)
      PROVE  Inv'
  BY <1>2, SetOverrideRedirectRight
<1>3. ASSUME NEW s \in XSurface, NEW tile \in BOOLEAN, MapSurface(s, tile) PROVE Inv'
  BY <1>3, MapSurfaceRight
<1>4. ASSUME NEW s \in XSurface, NEW sibling \in Object \cup {None}, UnmapSurface(s, sibling)
      PROVE  Inv'
  BY <1>4, UnmapSurfaceRight
<1>5. ASSUME NEW s \in XSurface, Associate(s) \/ Dissociate(s) \/ DestroyWindow(s) PROVE Inv'
  BY <1>5, AssociateRight, DissociateRight, DestroyRight
<1>6. ASSUME NEW s \in XSurface,
             \/ RequestActivate(s) \/ Click(s) \/ Commit(s) \/ RequestFullscreen(s)
             \/ RequestMove(s) \/ RequestResize(s)
      PROVE  Inv'
  BY <1>6, RequestsRight
<1>7. CASE EndGrab \/ ToggleFloating \/ ToggleFullscreen \/ workspace_cycle_next
  BY <1>7, KeysRight
<1> QED
  BY <1>1, <1>2, <1>3, <1>4, <1>5, <1>6, <1>7 DEF Next

\* The objects XWindows says it of are those of the invariant.
LEMMA InvImplies ==
  ASSUME Constants, Inv PROVE TypeOK /\ XPointersLive /\ FrameMarksFocus
<1>1. Right(xdesk) /\ xdesk \in Desk
  BY DEF Inv, Right, Good, Nearly
<1>2. \A S : ObjectsOf(S) = Of(xdesk, S)
  BY DEF ObjectsOf, Of
<1>3. XPointersLive
  BY <1>1, <1>2 DEF XPointersLive, Right, Good, Nearly, Pointed, KeyboardOn
<1>4. FrameMarksFocus
  BY <1>1, <1>2 DEF FrameMarksFocus, Right, Framed
<1> QED
  BY <1>1, <1>3, <1>4 DEF TypeOK
=============================================================================
