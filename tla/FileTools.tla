------------------------------ MODULE FileTools ------------------------------
(***************************************************************************)
(* The tools that read and edit files (tools/builtin/file_ops.py,          *)
(* file_read.py, file_common.py, ast_edit.py).  A text is a sequence of    *)
(* lines, a line a word with an indentation; the word Broken is one that   *)
(* does not parse.  A call is one step, but apply_edits, which writes file *)
(* by file: a write may fail and the user may edit between two of them.    *)
(***************************************************************************)
EXTENDS Naturals, Sequences, FiniteSets, SequencesExt

CONSTANTS
    EditPaths,  \* the files
    Absent,     \* in place of the text of a file that is not there
    NoText,     \* in place of the text of a patch that does not fit
    WordsOf,    \* the words of their lines
    Broken,     \* the one of them that does not parse
    Indents,    \* 0..Indents is the indentation of a line
    TextLength, \* a bound on the lines of a text
    BlockLength, \* a bound on the lines of a block that a patch looks for
    MaxFaults,  \* a bound on the writes that fail
    MaxOps      \* a bound on the calls and on the edits of the user

ASSUME FilesAssumption ==
    IsFiniteSet(EditPaths) /\ TextLength \in Nat /\ MaxFaults \in Nat /\ MaxOps \in Nat

VARIABLES disk, trash, seen, ops, faults, edits, before, others, torn, result

filesVars == <<disk, trash, seen, ops, faults, edits, before, others, torn, result>>

-----------------------------------------------------------------------------
SourceLines == [word : WordsOf, indent : 0..Indents]
Sources == UNION {[1..n -> SourceLines] : n \in 0..TextLength}
Parses(text) == \A i \in DOMAIN text : text[i].word # Broken
There(p) == disk[p] # Absent
Content(p) == IF There(p) THEN disk[p] ELSE <<>>

NotSeen == [path |-> NoText, text |-> NoText]
Ok == [ok |-> TRUE, error |-> "none"]
Error(e) == [ok |-> FALSE, error |-> e]

FilesInit ==
    /\ disk = [p \in EditPaths |-> Absent]
    /\ trash = {}
    /\ seen = NotSeen
    /\ ops = 0
    /\ faults = 0
    /\ edits = <<>>
    /\ before = disk
    /\ others = {}
    /\ torn = {}
    /\ result = Ok

\* A call begins: what the files hold, and that nobody else has changed them.
Between == edits = <<>> /\ ops < MaxOps
Begins ==
    /\ Between
    /\ ops' = ops + 1
    /\ before' = disk
    /\ others' = {}

Refused(e) ==
    /\ result' = Error(e)
    /\ torn' = {}
    /\ UNCHANGED <<disk, trash, seen, faults, edits>>

\* A write replaces the text, or fails before or after it has emptied the file.
Written(p, text) ==
    /\ UNCHANGED <<trash, seen, edits>>
    /\ \/ /\ disk' = [disk EXCEPT ![p] = text]
          /\ result' = Ok
          /\ torn' = {}
          /\ UNCHANGED faults
       \/ /\ faults < MaxFaults
          /\ faults' = faults + 1
          /\ disk' \in {disk, [disk EXCEPT ![p] = <<>>]}
          /\ torn' = {p}
          /\ result' = Error("OSError")

\* Read: the hash that a later edit may name is that of the whole file, however
\* few of its lines the call has returned.
Read(p, start, end) ==
    /\ Begins
    /\ IF ~There(p) THEN Refused("not_found")
       ELSE IF disk[p] # <<>> /\ start > (IF end < Len(disk[p]) THEN end ELSE Len(disk[p]))
            THEN Refused("line_range_out_of_bounds")
            ELSE /\ seen' = [path |-> p, text |-> disk[p]]
                 /\ result' = Ok
                 /\ torn' = {}
                 /\ UNCHANGED <<disk, trash, faults, edits>>

\* expected_hash is not that of the text.
Stale(p, named, text) == named /\ seen.path = p /\ seen.text # text

Write(p, text, fresh, named) ==
    /\ Begins
    /\ IF fresh /\ There(p) THEN Refused("file_exists")
       ELSE IF Content(p) # <<>> /\ Stale(p, named, Content(p)) THEN Refused("stale_file")
            ELSE Written(p, text)

-----------------------------------------------------------------------------
(* Patches: a block of lines that must be there once, and its replacement. *)

\* The block is a part of the text that starts in line i: the first line may be
\* indented deeper, for the search is for a substring.
At(block, text, i) ==
    /\ i + Len(block) - 1 <= Len(text)
    /\ text[i].word = block[1].word /\ text[i].indent >= block[1].indent
    /\ \A j \in 2..Len(block) : text[i + j - 1] = block[j]

\* str.count does not count a block that overlaps one that it has counted.
Found(block, text) ==
    LET From[i \in 1..(Len(text) + 1)] ==
          IF i > Len(text) THEN {}
          ELSE IF At(block, text, i)
               THEN {i} \cup (IF i + Len(block) > Len(text) THEN {} ELSE From[i + Len(block)])
               ELSE From[i + 1]
    IN  From[1]

\* The fallback for a block that is not there: its words, however indented.
FoundLoosely(block, text) ==
    {i \in DOMAIN text :
        /\ i + Len(block) - 1 <= Len(text)
        /\ \A j \in DOMAIN block : text[i + j - 1].word = block[j].word}

Indented(lines, by) == [j \in DOMAIN lines |-> [lines[j] EXCEPT !.indent = @ + by]]
Deeper(line, than) == IF line.indent > than.indent THEN line.indent - than.indent ELSE 0

Spliced(text, i, block, lines) ==
    SubSeq(text, 1, i - 1) \o lines \o SubSeq(text, i + Len(block), Len(text))

\* One patch: [search |-> block, replace |-> lines].
Patched(text, patch) ==
    LET block == patch.search
        exact == Found(block, text)
        loose == FoundLoosely(block, text)
        i == CHOOSE k \in exact : TRUE
        l == CHOOSE k \in loose : TRUE
        over == Deeper(text[i], block[1])
        first == [patch.replace[1] EXCEPT !.indent = @ + over]
    IN  CASE Cardinality(exact) = 1 ->
               Spliced(text, i, block,
                       IF patch.replace = <<>> THEN <<>> ELSE <<first>> \o Tail(patch.replace))
          [] exact = {} /\ Cardinality(loose) = 1 ->
               Spliced(text, l, block, Indented(patch.replace, Deeper(text[l], block[1])))
          [] OTHER -> NoText

\* A list of patches, each against what those before it have left.
AllPatched(text, patches) ==
    FoldLeft(LAMBDA t, patch : IF t = NoText THEN NoText ELSE Patched(t, patch), text, patches)

Patch(p, patches, named) ==
    /\ Begins
    /\ LET after == AllPatched(Content(p), patches)
       IN  IF Stale(p, named, Content(p)) THEN Refused("stale_file")
           ELSE IF after = NoText THEN Refused("patch_not_found")
                ELSE after \in Sources /\ Written(p, after)

\* Replace: the first definition of that name, in a text that parses before and
\* after.
Replace(p, word, indent, lines) ==
    /\ Begins
    /\ LET at == {i \in DOMAIN Content(p) : Content(p)[i] = [word |-> word, indent |-> indent]}
           i == CHOOSE k \in at : \A j \in at : k <= j
           after == Spliced(Content(p), i, <<word>>, lines)
       IN  IF Content(p) = <<>> THEN Refused("not_found")
           ELSE IF at = {} \/ ~Parses(Content(p)) THEN Refused("symbol_not_found")
                ELSE IF ~Parses(after) THEN Refused("syntax_error")
                     ELSE after \in Sources /\ Written(p, after)

\* Delete: to the trash, unless the call says otherwise.
Delete(p, missingOk, named, keeps) ==
    /\ Begins
    /\ IF ~There(p)
       THEN IF missingOk
            THEN result' = Ok /\ torn' = {} /\ UNCHANGED <<disk, trash, seen, faults, edits>>
            ELSE Refused("not_found")
       ELSE IF Stale(p, named, Content(p)) THEN Refused("stale_file")
            ELSE /\ disk' = [disk EXCEPT ![p] = Absent]
                 /\ trash' = IF keeps THEN trash \cup {disk[p]} ELSE trash
                 /\ result' = Ok
                 /\ torn' = {}
                 /\ UNCHANGED <<seen, faults, edits>>

-----------------------------------------------------------------------------
(* apply_edits: several files, as one.                                      *)

\* The edits that are left, and the files that have been written.
Edits(list) ==
    /\ Begins
    /\ edits' = list
    /\ torn' = {}
    /\ result' = Ok
    /\ UNCHANGED <<disk, trash, seen, faults>>

EditNext ==
    /\ edits # <<>>
    /\ Parses(Head(edits).text)
    /\ disk' = [disk EXCEPT ![Head(edits).path] = Head(edits).text]
    /\ edits' = Tail(edits)
    /\ torn' = torn \cup {Head(edits).path}
    /\ result' = Ok
    /\ UNCHANGED <<trash, seen, ops, faults, before, others>>

\* Mutant: a file that the call has created is not taken away again.
RolledBackOld(written, failed, emptied) ==
    [p \in EditPaths |-> IF p \in emptied THEN <<>>
                         ELSE IF p \in written \ failed /\ before[p] # Absent THEN before[p] ELSE disk[p]]
\* Each file that has been written gets back what it held when the call began, but for
\* those of which the write or the unlink fails as well: it is passed over, and the file
\* stays as it was edited, or empty.
RolledBack(written, failed, emptied) ==
    [p \in EditPaths |-> IF p \in emptied THEN <<>>
                         ELSE IF p \in written \ failed THEN before[p] ELSE disk[p]]

\* own is the file whose own write has failed, when it had not been written before.
Rejected(e, own, failed, count) ==
    /\ edits' = <<>>
    /\ result' = Error(e)
    /\ torn' = failed \cup own
    /\ faults + count <= MaxFaults /\ faults' = faults + count
    /\ \E emptied \in SUBSET (own \cup {p \in failed : before[p] # Absent}) :
          disk' = RolledBack(torn, failed, emptied)
    /\ UNCHANGED <<trash, seen, ops, before, others>>

EditRejected ==
    /\ edits # <<>>
    /\ ~Parses(Head(edits).text)
    /\ \E failed \in SUBSET torn : Rejected("atomic_edit_rejected", {}, failed, Cardinality(failed))

\* The file whose own write fails is not among those that have been written.
EditFails ==
    /\ edits # <<>>
    /\ Parses(Head(edits).text)
    /\ \E failed \in SUBSET torn :
          Rejected("OSError", {Head(edits).path} \ torn, failed, 1 + Cardinality(failed))

\* The user, or another program, changes a file.
OtherEdits(p, text) ==
    /\ ops < MaxOps
    /\ ops' = ops + 1
    /\ disk[p] # text
    /\ disk' = [disk EXCEPT ![p] = text]
    /\ others' = others \cup {p}
    /\ UNCHANGED <<trash, seen, faults, edits, before, torn, result>>

-----------------------------------------------------------------------------
Blocks == {s \in Sources : Len(s) \in 1..BlockLength}
Patches == [search : Blocks, replace : {s \in Sources : Len(s) <= 1}]
Lists(S) == {<<x>> : x \in S} \cup (S \X S)
PatchLists == Lists(Patches)
EditLists == Lists([path : EditPaths, text : {s \in Sources : Len(s) <= BlockLength}])

FilesNext ==
    \/ Between /\ \E p \in EditPaths, start, end \in 1..TextLength : Read(p, start, end)
    \/ Between /\ \E p \in EditPaths, text \in Sources, fresh, named \in BOOLEAN : Write(p, text, fresh, named)
    \/ Between /\ \E p \in EditPaths, patches \in PatchLists, named \in BOOLEAN : Patch(p, patches, named)
    \/ Between /\ \E p \in EditPaths, word \in WordsOf, indent \in 0..Indents, lines \in Sources \ {<<>>} :
                 Replace(p, word, indent, lines)
    \/ Between /\ \E p \in EditPaths, missingOk, named, keeps \in BOOLEAN : Delete(p, missingOk, named, keeps)
    \/ Between /\ \E list \in EditLists : Edits(list)
    \/ EditNext \/ EditRejected \/ EditFails
    \/ ops < MaxOps /\ \E p \in EditPaths, text \in Sources \cup {Absent} : OtherEdits(p, text)

FilesSpec == FilesInit /\ [][FilesNext]_filesVars

-----------------------------------------------------------------------------
FilesTypeOK ==
    /\ \A p \in EditPaths : {disk[p], before[p]} \subseteq Sources \cup {Absent}
    /\ trash \subseteq Sources
    /\ seen = NotSeen \/ (seen.path \in EditPaths /\ seen.text \in Sources)
    /\ ops \in 0..MaxOps
    /\ faults \in 0..MaxFaults
    /\ \A i \in DOMAIN edits : edits[i].path \in EditPaths /\ edits[i].text \in Sources
    /\ others \subseteq EditPaths
    /\ torn \subseteq EditPaths

\* A call that fails leaves every file as it was when the call began: a list of
\* patches of which one does not fit, a set of edits of which one does not parse
\* or cannot be written.  But for a file whose own write failed, one whose rollback
\* failed, and what others did meanwhile: ast_edit.py:7-8 and the description of the
\* tool (:124-126) promise it of ALL files, without the first two.
FailedEditsUndone ==
    edits = <<>> /\ ~result.ok =>
        \A p \in EditPaths : disk[p] # before[p] => p \in torn \cup others
=============================================================================
