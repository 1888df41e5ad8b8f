------------------------------ MODULE Launcher ------------------------------
(***************************************************************************)
(* ulaunch: the entries are lines that arrive on stdin (dmenu) or desktop  *)
(* files read at the start (drun); the user edits a query, moves the       *)
(* selection and chooses (tools/ulaunch/src: filter.c, input.c,            *)
(* mode_dmenu.c, mode_drun.c, the event loop of ulaunch.c and the          *)
(* scrolling of render.c).                                                 *)
(*                                                                         *)
(* A line and the query are sequences of bytes.  Scores are the code's, in *)
(* tenths and without the division by the length of the query, which all   *)
(* entries share.  qsort leaves the order of equal scores and names open.  *)
(*                                                                         *)
(* Abstracted: the case of letters and its bonus, the number of launches   *)
(* (0 for every entry until the program ends), failing allocations and     *)
(* drawing.  A line of a desktop file is a record of key and value.        *)
(***************************************************************************)
EXTENDS Integers, SequencesExt

CONSTANTS
  Lines,     \* what stdin will deliver, a sequence of byte sequences
  Dirs,      \* XDG_DATA_DIRS: sequences of desktop files, as readdir gives them
  Home,      \* the same for the user's own directory
  MaxEntries, \* no further directory is read from here on (4096)
  Collating, \* the bytes in the order of strcasecmp
  Utf8,      \* [printing key -> its bytes]
  InputMax,  \* INPUT_BUF_MAX - 2
  MaxScoreResults, \* MAX_SCORE_RESULTS
  MaxItems   \* theme.max_items, what one page shows

VARIABLES
  mode,          \* "dmenu" or "drun"
  entries,       \* the names or lines read so far
  exec_cmds,     \* the entries' commands (drun)
  input,         \* the query
  prev_input,    \* the query of the last filter_update
  cand,          \* the entries that matched it
  filtered,      \* the best of them, best first
  cursor,        \* index from 0 of the selected one
  visible_start, \* index from 0 of the first one shown
  need_redraw,
  repeat_key,    \* the key that repeats
  outcome,       \* "open", "closed", "raw" for the query itself, "entry"
  given,         \* the line that was printed or the command that was run
  strayed        \* auxiliary: the end of an empty list was selected

loaded == <<mode, entries, exec_cmds>>
choice == <<outcome, given>>
vars == <<loaded, input, prev_input, cand, filtered, cursor, visible_start,
          need_redraw, repeat_key, choice, strayed>>

Separator == {"-", " "}
Repeating == DOMAIN Utf8 \cup {"Up", "Down", "PageUp", "PageDown", "BackSpace", "Tab"}
NoRepeat == "none"

Least(a, b) == IF a < b THEN a ELSE b
Greatest(a, b) == IF a > b THEN a ELSE b

----------------------------------------------------------------------------
(* Matching. *)

\* score_match walks the line once and takes each byte of the query where it
\* first fits: 1, and 0.5 more next to the last one, 0.8 after a separator, and
\* 0.5 if the first one was taken at the start.
score_match(needle, line) ==
  LET walk[h \in 0 .. Len(line)] ==
        IF h = 0 THEN [ni |-> 0, prev |-> -1, first |-> 0, score |-> 0]
        ELSE LET w == walk[h - 1]
             IN IF w.ni = Len(needle) \/ line[h] # needle[w.ni + 1] THEN w
                ELSE [ni    |-> w.ni + 1,
                      prev  |-> h,
                      first |-> IF w.ni = 0 THEN h ELSE w.first,
                      score |-> w.score + 10
                                + (IF h = w.prev + 1 THEN 5 ELSE 0)
                                + (IF h > 1 /\ line[h - 1] \in Separator THEN 8 ELSE 0)]
      end == walk[Len(line)]
  IN IF needle = <<>> THEN 10
     ELSE IF end.ni < Len(needle) THEN 0
     ELSE end.score + (IF end.first = 1 THEN 5 ELSE 0)

\* An empty query scores nothing.
Score(query, line) == IF query = <<>> THEN 0 ELSE score_match(query, line)

\* A query that grew by one byte is tried on the survivors only.
Appended(query) ==
  /\ Len(prev_input) = Len(query) - 1
  /\ prev_input = SubSeq(query, 1, Len(prev_input))
  /\ cand # {}

Candidates(query, lines) ==
  IF query = <<>> THEN DOMAIN lines
  ELSE {e \in IF Appended(query) THEN cand ELSE DOMAIN lines : Score(query, lines[e]) > 0}

BestFirst(s, query, lines) ==
  \A i \in 1 .. Len(s) - 1 : Score(query, lines[s[i]]) >= Score(query, lines[s[i + 1]])

Results_cut_first(found, query, lines) ==
  {t \in SetToSeqs({e \in found : Cardinality({f \in found : f < e}) < MaxScoreResults}) :
     BestFirst(t, query, lines)}

\* All candidates are sorted, and only then cut.
Results(found, query, lines) ==
  {SubSeq(s, 1, Least(Len(s), MaxScoreResults)) :
     s \in {t \in SetToSeqs(found) : BestFirst(t, query, lines)}}

Clamp(c, n) == IF c >= n THEN Greatest(n - 1, 0) ELSE c

filter_update(query, lines) ==
  LET found == Candidates(query, lines)
  IN /\ cand' = found
     /\ filtered' \in Results(found, query, lines)
     /\ prev_input' = query
     /\ cursor' = Clamp(cursor, Len(filtered'))
     /\ need_redraw' = TRUE

----------------------------------------------------------------------------
(* Desktop files. *)

\* One line: the keys count in the section [Desktop Entry] only, and the last
\* value of a key counts, but NoDisplay=true cannot be taken back.
ReadLine(file, line) ==
  CASE line.key = "[" -> [file EXCEPT !.here = line.value = "Desktop Entry"]
    [] line.key = "NoDisplay" ->
         [file EXCEPT !.NoDisplay = @ \/ (file.here /\ line.value = "true")]
    [] line.key \in {"Name", "Exec"} ->
         [file EXCEPT ![line.key] = IF file.here THEN line.value ELSE @]
    [] OTHER -> file

\* The fields of Exec are left out, "%%" is "%", and blanks at the end go.
Expanded(exec) ==
  LET kept == SelectSeq(exec, LAMBDA c : c \notin {"%f", "%F", "%u", "%U", "%i", "%c", "%k"})
      plain == ReplaceAll(kept, "%%", "%")
  IN SubSeq(plain, 1, SelectLastInSeq(plain, LAMBDA c : c # " "))

\* parse_desktop_file appends an entry or nothing.
parse_desktop_file(found, lines) ==
  LET none == [here |-> FALSE, NoDisplay |-> FALSE, Name |-> <<>>, Exec |-> <<>>]
      file == FoldLeft(ReadLine, none, lines)
  IN IF file.NoDisplay \/ file.Name = <<>> \/ file.Exec = <<>> THEN found
     ELSE Append(found, [name |-> file.Name, exec |-> Expanded(file.Exec)])

scan_dir(found, dir) == FoldLeft(parse_desktop_file, found, dir)

\* The limit holds between directories; the user's own is always read.
DesktopEntries ==
  LET unless_full(found, dir) ==
        IF Len(found) < MaxEntries THEN scan_dir(found, dir) ELSE found
  IN scan_dir(FoldLeft(unless_full, <<>>, Dirs), Home)

\* strcasecmp is not positive.
NotAfter(s, t) ==
  LET place(b) == CHOOSE i \in DOMAIN Collating : Collating[i] = b
  IN \/ IsPrefix(s, t)
     \/ \E i \in 1 .. Least(Len(s), Len(t)) :
          SubSeq(s, 1, i - 1) = SubSeq(t, 1, i - 1) /\ place(s[i]) < place(t[i])

\* A permutation of the entries that sorts them by name.
SortedOrders ==
  LET found == DesktopEntries
  IN {o \in SetToSeqs(DOMAIN found) :
        \A i \in 1 .. Len(o) - 1 : NotAfter(found[o[i]].name, found[o[i + 1]].name)}

mode_drun_names_only(o) ==
  /\ entries = [i \in DOMAIN o |-> DesktopEntries[o[i]].name]
  /\ exec_cmds = [i \in DOMAIN o |-> DesktopEntries[i].exec]

\* mode_drun moves the commands along with the names.
mode_drun(o) ==
  /\ entries = [i \in DOMAIN o |-> DesktopEntries[o[i]].name]
  /\ exec_cmds = [i \in DOMAIN o |-> DesktopEntries[o[i]].exec]

----------------------------------------------------------------------------
(* Keys.  handle_press and the repetition of input_repeat_fire do the same.  *)

Query(k) ==
  CASE k \in DOMAIN Utf8 -> input \o Utf8[k]
    [] k = "BackSpace" -> SubSeq(input, 1, Len(input) - 1)
    [] k = "u" -> <<>>
    [] k = "w" -> LET trimmed == SelectInSeq(Reverse(input), LAMBDA c : c # " ")
                      words == IF trimmed = 0 THEN <<>>
                               ELSE SubSeq(input, 1, Len(input) - trimmed + 1)
                  IN SubSeq(words, 1, SelectLastInSeq(words, LAMBDA c : c = " "))

\* A byte that does not fit and a backspace on nothing change nothing.
Edits(k) ==
  \/ k \in DOMAIN Utf8 /\ Len(input) + Len(Utf8[k]) <= InputMax
  \/ k = "BackSpace" /\ input # <<>>
  \/ k \in {"u", "w"}

Edit(k) ==
  /\ Edits(k)
  /\ input' = Query(k)
  /\ filter_update(Query(k), entries)
  /\ UNCHANGED strayed

LastResult == Len(filtered) - 1

\* Neither Page Down nor the end of the list looks whether there is any result.
Moved(k) ==
  CASE k = "Up" -> IF cursor > 0 THEN cursor - 1 ELSE cursor
    [] k = "Down" -> IF cursor < LastResult THEN cursor + 1 ELSE cursor
    [] k = "PageUp" -> Greatest(cursor - MaxItems, 0)
    [] k = "PageDown" -> Least(cursor + MaxItems, LastResult)
    [] k = "Home" -> 0
    [] k = "End" -> LastResult
    [] k = "Tab" -> IF filtered = <<>> THEN cursor ELSE (cursor + 1) % Len(filtered)

Moves == {"Up", "Down", "PageUp", "PageDown", "Home", "End", "Tab"}

Move(k) ==
  /\ k \in Moves
  /\ cursor' = Moved(k)
  /\ need_redraw' = (need_redraw \/ k # "Tab" \/ filtered # <<>>)
  /\ strayed' = (strayed \/ (k \in {"PageDown", "End"} /\ filtered = <<>>))
  /\ UNCHANGED <<input, prev_input, cand, filtered>>

Effect(k) ==
  /\ Edit(k) \/ Move(k)
  /\ UNCHANGED <<loaded, visible_start, choice>>

Open == outcome = "open"

\* handle_press: the key repeats from now on, unless it is one that does not.
\* A printing key that finds no room starts no repetition.
Press(k) ==
  /\ Open /\ Effect(k)
  /\ repeat_key' = IF k \in Repeating THEN k ELSE repeat_key

PressInVain ==
  /\ Open /\ input = <<>>
  /\ repeat_key' = "BackSpace"
  /\ UNCHANGED <<loaded, input, prev_input, cand, filtered, cursor,
                 visible_start, need_redraw, choice, strayed>>

Repeat ==
  /\ Open /\ repeat_key # NoRepeat /\ Effect(repeat_key)
  /\ UNCHANGED repeat_key

Release ==
  /\ Open /\ repeat_key # NoRepeat /\ repeat_key' = NoRepeat
  /\ UNCHANGED <<loaded, input, prev_input, cand, filtered, cursor,
                 visible_start, need_redraw, choice, strayed>>

\* emit: the selected entry, or without one the query, is printed or run.
SelectedEntry == cursor >= 0 /\ cursor < Len(filtered)

emit ==
  \/ /\ SelectedEntry
     /\ outcome' = "entry"
     /\ given' = IF mode = "drun" THEN exec_cmds[filtered[cursor + 1]]
                 ELSE entries[filtered[cursor + 1]]
  \/ /\ ~SelectedEntry
     /\ outcome' = IF input = <<>> THEN "closed" ELSE "raw"
     /\ given' = input

\* Return chooses; Escape, Ctrl+C, the loss of the keyboard and a signal close.
End ==
  /\ Open
  /\ emit \/ (outcome' = "closed" /\ given' = <<>>)
  /\ repeat_key' = NoRepeat
  /\ UNCHANGED <<loaded, input, prev_input, cand, filtered, cursor,
                 visible_start, need_redraw, strayed>>

----------------------------------------------------------------------------
(* The event loop. *)

\* dmenu_pump read some lines.
Pump ==
  /\ Open /\ mode = "dmenu"
  /\ \E n \in Len(entries) + 1 .. Len(Lines) :
       /\ entries' = SubSeq(Lines, 1, n)
       /\ filter_update(input, entries')
  /\ UNCHANGED <<mode, exec_cmds, input, visible_start, repeat_key, choice, strayed>>

\* render_frame scrolls until the selection is on the page.
Visible == Least(MaxItems, Len(filtered))

Scrolled ==
  LET up == IF cursor < visible_start THEN cursor ELSE visible_start
  IN IF cursor >= up + Visible THEN cursor - Visible + 1 ELSE up

Draw ==
  /\ Open /\ need_redraw
  /\ visible_start' = Scrolled
  /\ need_redraw' = FALSE
  /\ UNCHANGED <<loaded, input, prev_input, cand, filtered, cursor,
                 repeat_key, choice, strayed>>

\* mode_dmenu reads what is there, mode_drun everything; main filters before
\* the loop.  Without a desktop entry ulaunch ends at once.
Init ==
  /\ \/ /\ mode = "dmenu" /\ exec_cmds = <<>>
        /\ \E n \in 0 .. Least(1, Len(Lines)) : entries = SubSeq(Lines, 1, n)
     \/ /\ mode = "drun"
        /\ \E o \in SortedOrders : mode_drun(o)
  /\ input = <<>> /\ prev_input = <<>>
  /\ cand = DOMAIN entries
  /\ filtered \in Results(cand, <<>>, entries)
  /\ cursor = 0 /\ visible_start = 0 /\ need_redraw = TRUE
  /\ repeat_key = NoRepeat /\ given = <<>> /\ strayed = FALSE
  /\ outcome = IF mode = "drun" /\ entries = <<>> THEN "closed" ELSE "open"

\* The program is over.
Over == ~Open /\ UNCHANGED vars

Next ==
  \/ \E k \in DOMAIN Utf8 \cup Moves \cup {"BackSpace", "u", "w"} : Press(k)
  \/ PressInVain \/ Repeat \/ Release \/ End
  \/ Pump \/ Draw
  \/ Over

Spec == Init /\ [][Next]_vars

----------------------------------------------------------------------------
(* Properties. *)

TypeOK ==
  /\ mode = "dmenu" => IsPrefix(entries, Lines) /\ exec_cmds = <<>>
  /\ mode = "drun" => Len(entries) = Len(exec_cmds)
  /\ Len(input) <= InputMax /\ Len(prev_input) <= InputMax
  /\ cand \subseteq DOMAIN entries /\ Range(filtered) \subseteq cand
  /\ cursor \in -1 .. Len(entries) /\ visible_start \in -1 .. Len(entries) + 1
  /\ repeat_key \in Repeating \cup {NoRepeat}
  /\ outcome \in {"open", "closed", "raw", "entry"}
  /\ need_redraw \in BOOLEAN /\ strayed \in BOOLEAN

\* The reference: the bytes of the query occur in the line in this order.
Matches(query, line) ==
  \E at \in [1 .. Len(query) -> 1 .. Len(line)] :
    /\ \A i \in 1 .. Len(query) : line[at[i]] = query[i]
    /\ \A i, j \in 1 .. Len(query) : i < j => at[i] < at[j]

\* However the query came about, and whatever lines arrived in between, the
\* list shows the best of all matching lines, best first: "results are
\* identical either way", incremental or not (filter.c:130-147).
ShowsBestMatches ==
  LET matching == {e \in DOMAIN entries : Matches(input, entries[e])}
      shown == Range(filtered)
  IN /\ shown \subseteq matching
     /\ Cardinality(shown) = Len(filtered)
     /\ Len(filtered) = Least(Cardinality(matching), MaxScoreResults)
     /\ BestFirst(filtered, input, entries)
     /\ \A e \in shown, f \in matching \ shown :
          Score(input, entries[e]) >= Score(input, entries[f])

\* What a desktop file that may be shown calls itself and asks to be run.
Offers(lines, name, exec) ==
  LET entry(key) == {i \in DOMAIN lines :
        /\ lines[i].key = key
        /\ \E h \in 1 .. i : /\ lines[h] = [key |-> "[", value |-> "Desktop Entry"]
                             /\ \A g \in h + 1 .. i : lines[g].key # "["}
      last(key) == CHOOSE i \in entry(key) : \A j \in entry(key) : j <= i
  IN /\ entry("Name") # {} /\ entry("Exec") # {}
     /\ lines[last("Name")].value = name /\ Expanded(lines[last("Exec")].value) = exec
     /\ \A i \in entry("NoDisplay") : lines[i].value # "true"

\* While there are results one of them is selected, through every change of
\* the list, and what is chosen is what the name shown there stands for: the
\* line itself, or the command of a desktop file of that name.  The exception:
\* End or Page Down on an empty list sets the selection to -1, where it stays
\* when results come back (input.c:59-103, 159-162, 217-220, 232-236, 279-281,
\* mode_drun.c:146-167).
SelectionIsAResult ==
  /\ (filtered # <<>> /\ ~strayed) => cursor \in 0 .. Len(filtered) - 1
  /\ outcome = "entry" =>
       LET name == entries[filtered[cursor + 1]]
       IN IF mode = "dmenu" THEN given = name
          ELSE \E dir \in Range(Dirs) \cup {Home} :
                 \E file \in Range(dir) : Offers(file, name, given)
============================================================================
