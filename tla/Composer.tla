------------------------------ MODULE Composer ------------------------------
(***************************************************************************)
(* The composer of the terminal: one prompt after another is edited key by *)
(* key (terminal_input.py, terminal_text_area.py).  A large paste is shown *)
(* as a placeholder, an atomic element of the text, and is put back when   *)
(* the prompt is submitted (terminal_paste.py).  Prompts can be recalled   *)
(* (terminal_history.py) and completed (terminal_completion.py).           *)
(*                                                                         *)
(* A text is a sequence of cells and a cursor the number of cells before   *)
(* it, as in the code; the words between the brackets of a placeholder     *)
(* are one cell, the size of the paste.  The editor slices its text, so a  *)
(* cursor beyond the end is legal; only a word motion indexes there.       *)
(***************************************************************************)
EXTENDS Integers, Sequences, SequencesExt, FiniteSets, FiniteSetsExt

CONSTANTS
    Cells,      \* the characters
    Shorts,     \* what a key or a small paste inserts: sequences of cells
    Bodies,     \* the large pastes, one cell each
    SizeOf,     \* the cell that shows the size of a large paste
    Number,     \* the cells that show the number of a paste, from the second of a size on
    Names,      \* the paths of the workspace, in the order they are offered
    Commands,   \* the slash commands, in the order they are offered
    Depth,      \* how many snapshots the editor keeps (100 in the code)
    MaxKeys     \* bound: keys pressed

\* The cells of a placeholder are no line breaks, and no paste is one of them; the
\* numbers are told apart by how they are written.
NL == "\n"
ComposerAssumption ==
    /\ {"[", "]", " ", "#", "@"} \cup Bodies \subseteq Cells /\ Shorts \subseteq Seq(Cells)
    /\ \A b \in Bodies : SizeOf[b] \in Cells /\ SizeOf[b] # NL
    /\ Bodies \cap ({"[", "]", " ", "#"} \cup {SizeOf[b] : b \in Bodies}) = {}
    /\ Names \in Seq(Seq(Cells)) /\ Commands \in Seq(Seq(Cells))
    /\ Depth \in Nat /\ MaxKeys \in Nat
    /\ \A n \in 2..MaxKeys :
          /\ Number[n] \in Seq(Cells) /\ Number[n] # <<>>
          /\ \A i \in DOMAIN Number[n] : Number[n][i] # NL /\ Number[n][i] \notin Bodies
          /\ \A m \in 2..MaxKeys : Number[m] = Number[n] => m = n

ASSUME ComposerAssumption

VARIABLES
    text, cursor, elements, kill,   \* the text area
    undos, redos, column,           \* its snapshots and preferred column
    pending, issued,                \* the pastes of the prompt
    entries, index, draft,          \* the history; index 0 is no navigation
    completion,                     \* no completion, or the one offered
    submitted,                      \* the prompt submitted last
    reading,                        \* the program waits for a key
    keys,                           \* keys pressed
    strayed, undone                 \* history: what the prompt has met

area == <<text, cursor, elements, kill, undos, redos, column>>
history == <<entries, index, draft>>
composerVars == <<area, pending, issued, history, completion, submitted, reading, keys, strayed, undone>>

White == {" ", NL}
Separators == {"[", "]", "#", "@", "/"}
NoColumn == -1

(***************************************************************************)
(* Texts.                                                                  *)
(***************************************************************************)
Upto(s, n) == SubSeq(s, 1, Min({n, Len(s)}))
From(s, n) == SubSeq(s, n + 1, Len(s))
Trimmed(s) ==
    LET solid == {i \in DOMAIN s : s[i] # NL}
    IN  IF solid = {} THEN <<>> ELSE SubSeq(s, Min(solid), Max(solid))
Filtered(s, S) ==
    LET kept[n \in 0..Len(s)] ==
            IF n = 0 THEN <<>> ELSE IF s[n] \in S THEN Append(kept[n - 1], s[n]) ELSE kept[n - 1]
    IN  kept[Len(s)]

\* The first line starts at 0, another one after each line break.
Starts == {0} \cup {i \in DOMAIN text : text[i] = NL}
LineStart(n) == Max({s \in Starts : s <= n})
LineEnd(n) == Min({i - 1 : i \in {j \in DOMAIN text : j > n /\ text[j] = NL}} \cup {Len(text)})

\* The start of the word before the cursor: back over blanks, then to a separator.
PreviousWord ==
    LET solid == Max({0} \cup {i \in 1..cursor : text[i] \notin White})
    IN  Max({0} \cup {i \in 1..solid : text[i] \in White \cup Separators})
NextWord ==
    LET stop(i, cells) == Min({j - 1 : j \in {k \in DOMAIN text : k > i /\ text[k] \in cells}}
                                  \cup {Max({i, Len(text)})})
        solid == Min({j - 1 : j \in {k \in DOMAIN text : k > cursor /\ text[k] \notin White}}
                         \cup {Max({cursor, Len(text)})})
    IN  stop(solid, White \cup Separators)

(***************************************************************************)
(* Elements: [from, to, label], to exclusive.                              *)
(***************************************************************************)
Leftmost(S) == CHOOSE e \in S : \A f \in S : e.from <= f.from
Containing(els, n) == {e \in els : e.from <= n /\ n < e.to}
Overlaps(e, a, b) == e.from < b /\ a < e.to

\* A position inside an element is moved to its nearer end.
Outside(els, n) ==
    IF Containing(els, n) = {} THEN n
    ELSE LET e == Leftmost(Containing(els, n))
         IN  IF n - e.from <= e.to - n THEN e.from ELSE e.to

\* What is inserted pushes the elements behind it, and widens the one it is in.
Slid(e, by) == [from |-> e.from + by, to |-> e.to + by, label |-> e.label]
Pushed(e, n, size) ==
    IF e.from >= n THEN Slid(e, size)
    ELSE IF n < e.to THEN [from |-> e.from, to |-> e.to + size, label |-> e.label]
    ELSE e
\* Mutant: an element that starts at the cursor stays where it is.
ShiftBehind(els, n, size) == {IF e.from = n THEN e ELSE Pushed(e, n, size) : e \in els}
Shift(els, n, size) == {Pushed(e, n, size) : e \in els}
\* What is deleted takes the elements it touches with it, and pulls back those behind it.
Pulled(e, start, end) == IF e.from >= end THEN Slid(e, start - end) ELSE e
Pull(els, start, end) == {Pulled(e, start, end) : e \in {f \in els : ~Overlaps(f, start, end)}}

(***************************************************************************)
(* The area: every edit first takes a snapshot, unless nothing changed     *)
(* since the last one.                                                     *)
(***************************************************************************)
Snapshot == [text |-> text, cursor |-> cursor, elements |-> elements]
TakeSnapshot ==
    LET all == Append(undos, Snapshot) IN
    IF undos # <<>> /\ Last(undos) = Snapshot
    THEN UNCHANGED <<undos, redos>>
    ELSE /\ undos' = IF Len(all) > Depth THEN Tail(all) ELSE all
         /\ redos' = <<>>

SetText(t, n) ==
    /\ TakeSnapshot
    /\ text' = t
    /\ cursor' = Outside(elements, Min({n, Len(t)}))
    /\ elements' = {}
    /\ column' = NoColumn
    /\ UNCHANGED kill

InsertAs(v, added) ==
    /\ TakeSnapshot
    /\ text' = Upto(text, cursor) \o v \o From(text, cursor)
    /\ elements' = Shift(elements, cursor, Len(v)) \cup added
    /\ cursor' = cursor + Len(v)
    /\ column' = NoColumn
    /\ UNCHANGED kill
InsertText(v) == IF v = <<>> THEN UNCHANGED area ELSE InsertAs(v, {})
InsertElement(label) ==
    InsertAs(label, {[from |-> cursor, to |-> cursor + Len(label), label |-> label]})

DeleteRange(a, b) ==
    LET hit == {e \in elements : Overlaps(e, a, b)}
        start == Min({a} \cup {e.from : e \in hit})
        end == Max({b} \cup {e.to : e \in hit})
        rest == Pull(elements, start, end)
        left == Upto(text, start) \o From(text, end)
    IN  /\ TakeSnapshot
        /\ text' = left
        /\ elements' = rest
        /\ cursor' = Outside(rest, Min({a, Len(left)}))
        /\ column' = NoColumn

DeleteBackward ==
    LET ending == {e \in elements : e.to = cursor}
        near == IF ending # {} THEN ending ELSE Containing(elements, cursor - 1)
    IN  /\ UNCHANGED kill
        /\ IF near # {} THEN DeleteRange(Leftmost(near).from, Leftmost(near).to)
                        ELSE DeleteRange(cursor - 1, cursor)
DeleteForward ==
    LET near == Containing(elements, cursor)
    IN  /\ UNCHANGED kill
        /\ IF near # {} THEN DeleteRange(Leftmost(near).from, Leftmost(near).to)
                        ELSE DeleteRange(cursor, cursor + 1)
KillRange(a, b) ==
    /\ kill' = SubSeq(text, a + 1, Min({b, Len(text)}))
    /\ DeleteRange(a, b)

MoveTo(n, col) ==
    /\ cursor' = n
    /\ column' = col
    /\ UNCHANGED <<text, elements, kill, undos, redos>>

Restore(s, past, future) ==
    /\ text' = s.text
    /\ cursor' = Min({s.cursor, Len(s.text)})
    /\ elements' = s.elements
    /\ undos' = past
    /\ redos' = future
    /\ column' = NoColumn
    /\ UNCHANGED kill

(***************************************************************************)
(* Pastes.  Two pastes of one size are told apart by a number.             *)
(***************************************************************************)
Placeholder(size, count) ==
    <<"[", size, "]">> \o (IF count = 1 THEN <<>> ELSE <<" ", "#">> \o Number[count])
Occurrences(t, v) == {i \in 1..(Len(t) - Len(v) + 1) : SubSeq(t, i, i + Len(v) - 1) = v}
ReplaceFirst(t, paste) ==
    LET at == Occurrences(t, paste.label) IN
    IF at = {} THEN t
    ELSE Upto(t, Min(at) - 1) \o <<paste.body>> \o From(t, Min(at) + Len(paste.label) - 1)
Expand(t) ==
    LET done[n \in 0..Len(pending)] == IF n = 0 THEN t ELSE ReplaceFirst(done[n - 1], pending[n])
    IN  done[Len(pending)]
Prune(pastes) == Filtered(pastes, {p \in Range(pastes) : \E e \in elements' : e.label = p.label})

\* The rest of every key that does not end the prompt.
Key == reading /\ keys < MaxKeys
Pressed ==
    /\ keys' = keys + 1
    /\ UNCHANGED <<entries, submitted, reading>>
Edited ==
    /\ Pressed
    /\ pending' = Prune(pending)
    /\ completion' = <<>>
    /\ UNCHANGED <<issued, index, draft>>

Stray(b) == strayed' = (strayed \/ b)
Strayed ==
    Stray(cursor' > Len(text') \/ \E e \in elements' : e.from < cursor' /\ cursor' < e.to)
Steady == UNCHANGED <<strayed, undone>>

(***************************************************************************)
(* One action per command of the keymap.                                   *)
(***************************************************************************)
Insert(v) == Key /\ InsertText(v) /\ Edited /\ Steady
Paste(body) ==
    LET size == SizeOf[body]
        label == Placeholder(size, issued[size] + 1)
    IN  /\ Key
        /\ issued' = [issued EXCEPT ![size] = @ + 1]
        /\ InsertElement(label)
        /\ pending' = Prune(Append(pending, [label |-> label, body |-> body]))
        /\ completion' = <<>>
        /\ Pressed
        /\ UNCHANGED <<index, draft>>
        /\ Steady
Backspace == Key /\ cursor > 0 /\ DeleteBackward /\ Edited /\ Steady
Delete == Key /\ cursor < Len(text) /\ DeleteForward /\ Edited /\ Steady
\* Ctrl-D is handled before the completion is dismissed.
DeleteOrEof ==
    /\ Key
    /\ IF text = <<>>
       THEN /\ reading' = FALSE
            /\ keys' = keys + 1
            /\ UNCHANGED <<area, pending, entries, submitted>>
       ELSE /\ IF cursor < Len(text) THEN DeleteForward ELSE UNCHANGED area
            /\ pending' = Prune(pending)
            /\ Pressed
    /\ UNCHANGED <<issued, index, draft, completion>>
    /\ Steady

Back ==
    LET ending == {e \in elements : e.to = cursor}
        inside == Containing(elements, cursor - 1)
    IN  IF ending # {} THEN Leftmost(ending).from
        ELSE IF inside # {} THEN Leftmost(inside).from
        ELSE Max({0, Min({cursor - 1, Len(text)})})
Left == Key /\ MoveTo(Back, NoColumn) /\ Edited /\ Steady
On ==
    LET here == {e \in elements : e.from = cursor}
        inside == Containing(elements, cursor + 1)
    IN  IF here # {} THEN Leftmost(here).to
        ELSE IF inside # {} THEN Leftmost(inside).to
        ELSE Min({cursor + 1, Len(text)})
Right == Key /\ MoveTo(On, NoColumn) /\ Edited /\ Steady
Home == Key /\ MoveTo(LineStart(cursor), NoColumn) /\ Edited /\ Steady
End == Key /\ MoveTo(LineEnd(cursor), NoColumn) /\ Edited /\ Steady
WordLeft ==
    /\ Key
    /\ cursor <= Len(text)
    /\ MoveTo(PreviousWord, NoColumn)
    /\ Edited
    /\ Strayed
    /\ UNCHANGED undone
WordRight == Key /\ MoveTo(NextWord, NoColumn) /\ Edited /\ Strayed /\ UNCHANGED undone

KillStart ==
    /\ Key
    /\ LineStart(cursor) < cursor
    /\ KillRange(LineStart(cursor), cursor)
    /\ Edited
    /\ Steady
KillEnd ==
    LET end == LineEnd(cursor)
        upto == IF end = cursor /\ end < Len(text) THEN end + 1 ELSE end
    IN  Key /\ upto # cursor /\ KillRange(cursor, upto) /\ Edited /\ Steady
KillWord ==
    /\ Key
    /\ cursor <= Len(text)
    /\ PreviousWord < cursor
    /\ KillRange(PreviousWord, cursor)
    /\ Edited
    /\ Steady
Yank == Key /\ InsertText(kill) /\ Edited /\ Steady
Undo ==
    /\ Key
    /\ undos # <<>>
    /\ Restore(Last(undos), Front(undos), Append(redos, Snapshot))
    /\ Edited
    /\ undone' = TRUE
    /\ UNCHANGED strayed
Redo ==
    /\ Key
    /\ redos # <<>>
    /\ Restore(Last(redos), Append(undos, Snapshot), Front(redos))
    /\ Edited
    /\ undone' = TRUE
    /\ UNCHANGED strayed
\* Escape, and any key above that finds nothing to do, dismisses the completion.
Dismiss == Key /\ UNCHANGED area /\ Edited /\ Steady

(***************************************************************************)
(* Completion of a slash command or of a path after the last @.            *)
(***************************************************************************)
Offer(start, list) ==
    IF list = <<>> THEN <<>> ELSE <<[start |-> start, end |-> cursor, list |-> list, at |-> 1]>>
PathOffer ==
    LET marks == {i \in DOMAIN Upto(text, cursor) : text[i] = "@"}
        token == From(Upto(text, cursor), Max(marks))
        paths == Filtered(Names, {n \in Range(Names) : IsPrefix(token, n)})
    IN  IF marks = {} \/ \E i \in DOMAIN token : token[i] \in White THEN <<>>
        ELSE Offer(Max(marks) - 1, [i \in DOMAIN paths |-> <<"@">> \o paths[i]])
Offered ==
    LET before == Upto(text, cursor)
        slash == before # <<>> /\ before[1] = "/" /\ NL \notin Range(before)
        commands == Filtered(Commands, {c \in Range(Commands) : IsPrefix(before, c)})
    IN  IF slash /\ commands # <<>> THEN Offer(0, commands) ELSE PathOffer

\* The cursor of the new text is kept out of the elements of the old one.
InsertCandidate(c) ==
    LET new == c.list[c.at]
        end == c.start + Len(new)
    IN  /\ SetText(Upto(text, c.start) \o new \o From(text, c.end), end)
        /\ completion' = <<[c EXCEPT !.end = end]>>
        /\ pending' = Prune(pending)
        /\ Strayed
        /\ UNCHANGED undone
Turned(c, by) == [c EXCEPT !.at = ((@ - 1 + by + Len(c.list)) % Len(c.list)) + 1]

Tab ==
    LET offer == Offered IN
    /\ Key
    /\ \/ /\ completion # <<>>
          /\ InsertCandidate(Turned(completion[1], 1))
       \/ /\ completion = <<>>
          /\ offer # <<>>
          /\ InsertCandidate(offer[1])
    /\ Pressed
    /\ UNCHANGED <<issued, index, draft>>
\* The arrows turn a completion if there is one to turn.
Navigate(by) ==
    LET offer == Offered
        first == [offer[1] EXCEPT !.at = IF by > 0 THEN 1 ELSE Len(offer[1].list)]
    IN  /\ Key
        /\ \/ /\ completion # <<>>
              /\ InsertCandidate(Turned(completion[1], by))
           \/ /\ completion = <<>>
              /\ offer # <<>>
              /\ InsertCandidate(first)
        /\ Pressed
        /\ UNCHANGED <<issued, index, draft>>

(***************************************************************************)
(* The arrows otherwise move between lines, and from the first and the     *)
(* last line through the history.                                          *)
(***************************************************************************)
Plain == completion = <<>> /\ Offered = <<>>
Recall(t) ==
    /\ SetText(t, Len(t))
    /\ pending' = Prune(pending)
    /\ completion' = <<>>
    /\ Pressed
    /\ Strayed
    /\ UNCHANGED <<issued, undone>>
Row == LineStart(Min({cursor, Len(text)}))
Wanted == IF column # NoColumn THEN column ELSE Min({cursor, Len(text)}) - Row
Vertical(start) ==
    /\ MoveTo(Min({start + Wanted, LineEnd(start)}), Wanted)
    /\ Edited
    /\ Strayed
    /\ UNCHANGED undone

Up ==
    /\ Key
    /\ Plain
    /\ \/ /\ Row > 0
          /\ Vertical(Max({s \in Starts : s < Row}))
       \/ /\ Row = 0
          /\ entries # <<>>
          /\ index' = IF index = 0 THEN Len(entries) ELSE IF index = 1 THEN 1 ELSE index - 1
          /\ draft' = IF index = 0 THEN text ELSE draft
          /\ Recall(entries[index'])
Down ==
    LET below == {s \in Starts : s > Row} IN
    /\ Key
    /\ Plain
    /\ \/ /\ below # {}
          /\ Vertical(Min(below))
       \/ /\ below = {}
          /\ index > 0
          /\ IF index = Len(entries)
             THEN index' = 0 /\ draft' = <<>> /\ Recall(draft)
             ELSE index' = index + 1 /\ UNCHANGED draft /\ Recall(entries[index'])

(***************************************************************************)
(* The end of a prompt.  The history keeps the placeholders of the text.   *)
(***************************************************************************)
Unissued == [s \in {SizeOf[b] : b \in Bodies} |-> 0]
Submit ==
    LET line == Trimmed(text) IN
    /\ Key
    /\ \E i \in DOMAIN text : text[i] \notin White
    /\ submitted' = Expand(text)
    /\ entries' = IF entries # <<>> /\ Last(entries) = line THEN entries ELSE Append(entries, line)
    /\ index' = 0
    /\ draft' = <<>>
    /\ text' = <<>> /\ cursor' = 0 /\ elements' = {} /\ kill' = <<>>
    /\ undos' = <<>> /\ redos' = <<>> /\ column' = NoColumn
    /\ pending' = <<>> /\ issued' = Unissued /\ completion' = <<>>
    /\ strayed' = FALSE /\ undone' = FALSE
    /\ keys' = keys + 1
    /\ UNCHANGED reading
\* Ctrl-C leaves the program; so does a word motion beyond the end of the text.
Leave == reading' = FALSE /\ UNCHANGED <<area, pending, issued, history, completion, submitted, keys, strayed, undone>>
Cancel == Key /\ Leave
WordFails == Key /\ cursor > Len(text) /\ Leave

ComposerInit ==
    /\ text = <<>> /\ cursor = 0 /\ elements = {} /\ kill = <<>>
    /\ undos = <<>> /\ redos = <<>> /\ column = NoColumn
    /\ pending = <<>> /\ issued = Unissued /\ completion = <<>>
    /\ strayed = FALSE /\ undone = FALSE
    /\ entries = <<>> /\ index = 0 /\ draft = <<>>
    /\ submitted = <<>> /\ reading = TRUE /\ keys = 0

ComposerNext ==
    \/ \E v \in Shorts : Insert(v)
    \/ \E b \in Bodies : Paste(b)
    \/ Backspace \/ Delete \/ DeleteOrEof
    \/ Left \/ Right \/ Home \/ End \/ WordLeft \/ WordRight
    \/ KillStart \/ KillEnd \/ KillWord \/ Yank \/ Undo \/ Redo \/ Dismiss
    \/ Tab \/ Navigate(1) \/ Navigate(-1) \/ Up \/ Down
    \/ Submit \/ Cancel \/ WordFails

ComposerSpec == ComposerInit /\ [][ComposerNext]_composerVars
-----------------------------------------------------------------------------
IsElement(e) == e.from \in Nat /\ e.to \in Nat /\ e.from < e.to
ComposerTypeOK ==
    /\ text \in Seq(Cells) /\ kill \in Seq(Cells) /\ draft \in Seq(Cells) /\ submitted \in Seq(Cells)
    /\ cursor \in Nat /\ column \in Nat \cup {NoColumn}
    /\ \A e \in elements : IsElement(e)
    /\ Len(undos) <= Depth + MaxKeys
    /\ \A i, j \in DOMAIN pending : pending[i].label = pending[j].label => i = j
    /\ \A s \in DOMAIN issued : issued[s] \in Nat
    /\ index \in 0..Len(entries)
    /\ Len(completion) <= 1
    /\ reading \in BOOLEAN /\ strayed \in BOOLEAN /\ undone \in BOOLEAN
    /\ keys \in 0..MaxKeys

\* The text with the elements of S as the pastes they stand for: the last cell of
\* each gives the paste, the cells before it give nothing.
BodyOf(label) == (CHOOSE p \in Range(pending) : p.label = label).body
Shows(S, n) ==
    LET over == {e \in S : e.from < n /\ n <= e.to} IN
    IF over = {} THEN <<text[n]>>
    ELSE IF \E e \in over : e.to = n THEN <<BodyOf((CHOOSE e \in over : e.to = n).label)>>
    ELSE <<>>
PutBack(S) ==
    LET upTo[n \in 0..Len(text)] == IF n = 0 THEN <<>> ELSE upTo[n - 1] \o Shows(S, n)
    IN  upTo[Len(text)]
Meant == PutBack(elements)

\* What Enter sends holds, at each placeholder still shown as an element,
\* the text that was pasted there: as long as no word motion, arrow or
\* recall has left the cursor inside an element or beyond the text, nothing
\* was undone, and no placeholder is spelled a second time before its own
\* place (PasteManager.expand replaces the first one it finds): neither typed
\* there, nor as the beginning of the placeholder of a later paste of the same
\* size, "... chars] #2", that was moved before it.  Of those cases nothing
\* is claimed: expand may put the text in the wrong place.
PastesArrive ==
    /\ ~strayed => \A e \in elements : SubSeq(text, e.from + 1, e.to) = e.label
    /\ (~strayed /\ ~undone
          /\ \A e \in elements : Min(Occurrences(text, e.label)) = e.from + 1)
       => Expand(text) = Meant
=============================================================================
