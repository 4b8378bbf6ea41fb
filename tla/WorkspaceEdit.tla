---------------------------- MODULE WorkspaceEdit ----------------------------
(***************************************************************************)
(* The tool lsp_rename: it asks a language server whether the symbol can be *)
(* renamed and for the changes that do it, and applies them one after the   *)
(* other, without going back when one fails.  A document is the sequence of *)
(* its lines, a line the sequence of its characters; a position counts the  *)
(* UTF-16 units of its line.                                                *)
(***************************************************************************)
EXTENDS Naturals, SequencesExt

CONSTANTS
  Files,      \* files of the workspace
  Outside,    \* a path that leads out of it
  Chars,      \* characters
  Wide,       \* those of two UTF-16 units
  NL,         \* the line break
  Documents,  \* what the files hold at first and what others write
  News,       \* new texts of edits
  MaxEdits,   \* text edits of one change
  MaxCalls    \* calls

VARIABLES
  disk,      \* file -> its document, <<>> if there is no such file
  phase,     \* "idle", "preparing", "asking" or "applying"
  known,     \* the disk as it was when the server made the changes
  todo,      \* changes still to be applied
  modified,  \* files named as modified
  errors,    \* whether a change failed
  report,    \* how the last call ended
  last,      \* the text edits applied last: to what, which, and the result
  calls      \* calls so far

vars == <<disk, phase, known, todo, modified, errors, report, last, calls>>

-----------------------------------------------------------------------------
(* Text edits: [line, char, endLine, endChar, new].                        *)

Width(c) == IF c \in Wide THEN 2 ELSE 1

\* The UTF-16 units of a text: of each character its first and its second.
Utf16(text) == FlattenSeq([i \in DOMAIN text |-> [u \in 1..Width(text[i]) |-> <<text[i], u>>]])

Units(line) == Len(Utf16(line))

\* utf16_code_unit_offset_to_byte_offset: the characters before the position,
\* the whole line if it lies beyond it; none within a character.
Before(line, char) ==
  IF char >= Units(line) THEN {Len(line)}
  ELSE {k \in 0..Len(line) : Units(SubSeq(line, 1, k)) = char}

\* The lines of the first characters of a text, and of all.
Lines(text) ==
  LET upto[n \in 0..Len(text)] ==
        IF n = 0 THEN <<<<>>>>
        ELSE LET ls == upto[n - 1]
             IN  IF text[n] = NL THEN Append(ls, <<>>)
                 ELSE [ls EXCEPT ![Len(ls)] = Append(@, text[n])]
  IN  upto[Len(text)]

Padded(doc, n) == [i \in 1..(IF Len(doc) < n THEN n ELSE Len(doc)) |->
                     IF i \in DOMAIN doc THEN doc[i] ELSE <<>>]

\* One text edit.  A document of failures is empty, for one without lines is none.
\* New text with a break makes one line of several when it replaces within a line.
Edited(doc, e) ==
  LET d == Padded(doc, (IF e.line > e.endLine THEN e.line ELSE e.endLine) + 1)
      first == d[e.line + 1]
      final == d[e.endLine + 1]
      from == Before(first, e.char)
      to == Before(final, e.endChar)
      Put(i, j) == SubSeq(first, 1, i) \o e.new \o SubSeq(final, j + 1, Len(final))
  IN  IF doc = <<>> \/ from = {} \/ to = {} THEN <<>>
      ELSE LET text == CHOOSE t \in {Put(i, j) : i \in from, j \in to} : TRUE
           IN  SubSeq(d, 1, e.line)
               \o (IF e.line = e.endLine THEN <<text>> ELSE Lines(text))
               \o SubSeq(d, e.endLine + 2, Len(d))

\* Wrong variant: the edits of one line are left in the order they came in.
LaterByLine(a, b) == a.line > b.line

Later(a, b) == a.line > b.line \/ (a.line = b.line /\ a.char > b.char)

\* The sort of apply_text_edits_to_file, which keeps the order of equals.
Sorted(edits) ==
  LET Goes(i, j) == Later(edits[i], edits[j]) \/ (~Later(edits[j], edits[i]) /\ i < j)
      order == CHOOSE o \in [DOMAIN edits -> DOMAIN edits] :
                 \A i, j \in DOMAIN edits : i < j => Goes(o[i], o[j])
  IN  [k \in DOMAIN edits |-> edits[order[k]]]

Joined(doc) ==
  FlattenSeq([i \in DOMAIN doc |-> IF i < Len(doc) THEN doc[i] \o <<NL>> ELSE doc[i]])

\* The document that is written: the lines joined, and read again as lines.
Applied(doc, edits) ==
  LET lines == FoldLeft(Edited, doc, Sorted(edits))
  IN  IF lines = <<>> THEN <<>> ELSE Lines(Joined(lines))

-----------------------------------------------------------------------------
(* Actions.                                                                *)

NoEdits == [before |-> <<>>, edits |-> <<>>, after |-> <<>>, fits |-> FALSE]

Init ==
  /\ disk \in [Files -> Documents]
  /\ phase = "idle" /\ known = disk /\ todo = <<>> /\ modified = {} /\ errors = FALSE
  /\ report = "none" /\ last = NoEdits /\ calls = 0

\* rename_context: the file is there and of a kind some server handles.
Call ==
  /\ phase = "idle" /\ calls < MaxCalls /\ calls' = calls + 1 /\ \E f \in Files : disk[f] # <<>>
  /\ phase' = "preparing" /\ report' = "none"
  /\ modified' = {} /\ errors' = FALSE /\ last' = NoEdits
  /\ UNCHANGED <<disk, known, todo>>

\* The position, the kind of file or the server's answer does not allow it.
Refuse ==
  /\ phase \in {"preparing", "asking"} /\ phase' = "idle" /\ report' = "error"
  /\ UNCHANGED <<disk, known, todo, modified, errors, last, calls>>

\* request_prepare_rename, and prepare_rename_is_valid of what it returns.
Prepared ==
  /\ phase = "preparing" /\ phase' = "asking"
  /\ UNCHANGED <<disk, known, todo, modified, errors, report, last, calls>>

Positions(doc) == {p \in (0..Len(doc)) \X (0..(2 * Len(Joined(doc)))) :
                     IF p[1] = Len(doc) THEN p[2] = 0 ELSE p[2] <= Units(doc[p[1] + 1])}

Follows(p, q) == p[1] > q[1] \/ (p[1] = q[1] /\ p[2] >= q[2])

TextEdits(doc) ==
  { [line |-> r[1][1], char |-> r[1][2], endLine |-> r[2][1], endChar |-> r[2][2], new |-> t] :
      r \in { s \in Positions(doc) \X Positions(doc) : Follows(s[2], s[1]) }, t \in News }

Apart(a, b) ==
  /\ <<a.line, a.char>> # <<b.line, b.char>>
  /\ \/ Follows(<<a.line, a.char>>, <<b.endLine, b.endChar>>)
     \/ Follows(<<b.line, b.char>>, <<a.endLine, a.endChar>>)

\* What a server sends for a document: edits that do not overlap.
EditLists(doc) ==
  {<<e>> : e \in TextEdits(doc)} \cup
  (IF MaxEdits < 2 THEN {}
   ELSE {s \in TextEdits(doc) \X TextEdits(doc) : Apart(s[1], s[2])})

Change(kind, path, to, edits) == [kind |-> kind, path |-> path, to |-> to, edits |-> edits]

Changes(d) ==
  (UNION {{Change("edits", f, f, s) : s \in EditLists(d[f])} : f \in {g \in Files : d[g] # <<>>}})
  \cup { Change(k, f, g, <<>>) :
           k \in {"create", "rename", "delete"}, f \in Files \cup {Outside}, g \in Files }

\* request_rename: the server answers with the changes.
Answered ==
  /\ phase = "asking" /\ phase' = "applying" /\ known' = disk
  /\ \E c \in Changes(disk) : \E more \in {<<>>} \cup
       {<<Change("delete", Outside, Outside, <<>>)>>, <<Change("create", c.path, c.path, <<>>)>>} :
         todo' = <<c>> \o more
  /\ UNCHANGED <<disk, modified, errors, report, last, calls>>

Take == phase = "applying" /\ todo # <<>> /\ todo' = Tail(todo) /\ UNCHANGED <<phase, known, report, calls>>

Succeeds(f) == modified' = modified \cup {f} /\ UNCHANGED errors
Fails == errors' = TRUE /\ UNCHANGED modified

\* A write that fails may have emptied the file before.
WriteFails(f) == disk' \in {disk, [disk EXCEPT ![f] = <<<<>>>>]} /\ Fails

\* apply_text_edits_to_file
ApplyEdits ==
  /\ Take
  /\ LET c == todo[1]
         doc == Applied(disk[c.path], c.edits)
     IN  /\ c.kind = "edits"
         /\ \/ /\ doc # <<>> /\ disk' = [disk EXCEPT ![c.path] = doc] /\ Succeeds(c.path)
               /\ last' = [before |-> disk[c.path], edits |-> c.edits, after |-> doc,
                           fits |-> disk[c.path] = known[c.path]]
            \/ /\ doc = <<>> /\ Fails /\ UNCHANGED <<disk, last>>
            \/ /\ doc # <<>> /\ WriteFails(c.path) /\ UNCHANGED last

\* ensure_workspace_path refuses a path that leads out of the workspace.
ApplyOutside ==
  /\ Take /\ todo[1].path = Outside /\ Fails /\ UNCHANGED <<disk, last>>

ApplyCreate ==
  /\ Take /\ todo[1].kind = "create" /\ todo[1].path # Outside
  /\ \/ disk' = [disk EXCEPT ![todo[1].path] = <<<<>>>>] /\ Succeeds(todo[1].path)
     \/ Fails /\ UNCHANGED disk
  /\ UNCHANGED last

\* The new file is written, and then the old one removed, which may fail.
ApplyRename ==
  /\ Take /\ todo[1].kind = "rename" /\ todo[1].path # Outside
  /\ LET old == todo[1].path
         new == todo[1].to
         copied == [disk EXCEPT ![new] = disk[old]]
     IN  \/ /\ disk[old] # <<>> /\ disk' = [copied EXCEPT ![old] = <<>>] /\ Succeeds(new)
         \/ disk[old] = <<>> /\ Fails /\ UNCHANGED disk
         \/ disk[old] # <<>> /\ disk' = copied /\ Fails
         \/ disk[old] # <<>> /\ WriteFails(new)
  /\ UNCHANGED last

ApplyDelete ==
  /\ Take /\ todo[1].kind = "delete" /\ todo[1].path # Outside
  /\ LET f == todo[1].path
     IN  \/ disk[f] # <<>> /\ disk' = [disk EXCEPT ![f] = <<>>] /\ Succeeds(f)
         \/ Fails /\ UNCHANGED disk
  /\ UNCHANGED last

\* format_apply_result
Finish ==
  /\ phase = "applying" /\ todo = <<>> /\ phase' = "idle"
  /\ report' = (IF errors THEN "partly" ELSE "applied")
  /\ UNCHANGED <<disk, known, todo, modified, errors, last, calls>>

\* Another tool or program writes a file meanwhile.
Elsewhere(f) ==
  /\ phase = "applying" /\ disk = known
  /\ \E d \in Documents \ {disk[f]} : disk' = [disk EXCEPT ![f] = d]
  /\ UNCHANGED <<phase, known, todo, modified, errors, report, last, calls>>

Next ==
  \/ Call \/ Refuse \/ Prepared \/ Answered
  \/ ApplyEdits \/ ApplyOutside \/ ApplyCreate \/ ApplyRename \/ ApplyDelete \/ Finish
  \/ \E f \in Files : Elsewhere(f)

Spec == Init /\ [][Next]_vars

-----------------------------------------------------------------------------
(* Properties.                                                             *)

TypeOK ==
  /\ DOMAIN disk = Files /\ phase \in {"idle", "preparing", "asking", "applying"}
  /\ modified \subseteq Files /\ errors \in BOOLEAN
  /\ report \in {"none", "error", "partly", "applied"}

\* The document as UTF-16 units, and the place of a position in it.
Flat(doc) == Utf16(Joined(doc))

Place(doc, line, char) ==
  LET most == IF line < Len(doc) THEN Units(doc[line + 1]) ELSE 0
  IN  Units(Joined(SubSeq(doc, 1, line) \o <<<<>>>>)) + (IF char > most THEN most ELSE char)

\* All edits at once: before each unit the new text of the edits that begin
\* there, and the unit unless an edit takes it away.
AtOnce(doc, edits) ==
  LET ends == {edits[i].endLine : i \in DOMAIN edits}
      d == Padded(doc, 1 + CHOOSE n \in ends : \A m \in ends : m <= n)
      text == Flat(d)
      From(i) == Place(d, edits[i].line, edits[i].char)
      To(i) == Place(d, edits[i].endLine, edits[i].endChar)
      Put(o) == FlattenSeq([i \in DOMAIN edits |->
                  IF From(i) = o THEN Flat(<<edits[i].new>>) ELSE <<>>])
      Kept(o) == IF o = Len(text) \/ \E i \in DOMAIN edits : o \in From(i)..(To(i) - 1)
                 THEN <<>> ELSE <<text[o + 1]>>
  IN  FlattenSeq([k \in 1..(Len(text) + 1) |-> Put(k - 1) \o Kept(k - 1)])

\* However the edits of a file are ordered and however many of them share a
\* line, applying them one by one gives what applying them at once to the
\* document the server knew would: none moves the place of another.
TextEditsMatch ==
  last.fits => Flat(last.after) = AtOnce(last.before, last.edits)
=============================================================================
