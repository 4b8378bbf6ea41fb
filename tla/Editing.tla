------------------------------- MODULE Editing -------------------------------
(***************************************************************************)
(* The tools hashline_edit and patch: several agents edit one file.  An     *)
(* edit reads the file, computes the whole new content, writes it to a      *)
(* temporary file and renames that over the file; then it is recorded in    *)
(* the artifacts and metrics.  A line's hash is its text.  The id of a line *)
(* is not in the code: it tells which line of the initial file a line is,   *)
(* 0 for one an edit brought.  A replacement is a text too, given as what   *)
(* stands between its breaks: <<x, Empty>> is x and a break.                *)
(***************************************************************************)
EXTENDS Naturals, SequencesExt

CONSTANTS
  Editors,    \* agents that edit
  Doubles,    \* those of them whose requests have two operations
  Texts,      \* line texts
  Empty,      \* the one that is empty
  MaxLines,   \* lines of the initial file
  MaxNew,     \* pieces of a replacement
  MaxEdits    \* calls

VARIABLES
  file,      \* the lines of the file
  seen,      \* editor -> the lines it last looked at, from which it takes anchors
  pc,        \* editor -> "idle" or "writing"
  work,      \* editor -> the edit it writes: what it read, the request, the new lines
  report,    \* editor -> how its last call ended
  applied,   \* editor -> whether that call changed the file
  temps,     \* editors that left a temporary file behind
  calls      \* calls so far

vars == <<file, seen, pc, work, report, applied, temps, calls>>

-----------------------------------------------------------------------------
(* Lines and their endings.                                                *)

Breaks(f) == {f[i].ending : i \in DOMAIN f} \ {"none"}

Preferred(f) == IF Breaks(f) = {"crlf"} THEN "crlf" ELSE "lf"

EndsInBreak(f) == f # <<>> /\ f[Len(f)].ending # "none"

\* text_to_fidelity_lines: nothing behind the last break is no line.
Content(ls) ==
  IF ls # <<>> /\ ls[Len(ls)].text = Empty /\ ~EndsInBreak(ls) THEN Front(ls) ELSE ls

\* replacement_to_lines: a break at its end starts no line of a replacement.
Pieces(new) == IF Len(new) > 1 /\ new[Len(new)] = Empty THEN Front(new) ELSE new

Fresh(texts) == [i \in DOMAIN texts |-> [text |-> texts[i], ending |-> "none", id |-> 0]]

\* apply_line_fidelity: ls is to end as f did, and every line to have a break.
Faithful(ls, f) ==
  LET Broken(l) == IF l.ending = "none" THEN [l EXCEPT !.ending = Preferred(f)] ELSE l
  IN  [i \in DOMAIN ls |->
         IF i < Len(ls) \/ EndsInBreak(f) THEN Broken(ls[i]) ELSE [ls[i] EXCEPT !.ending = "none"]]

\* The text that no_op compares: all breaks alike.
Canonical(f) == [i \in DOMAIN f |-> <<f[i].text, f[i].ending # "none">>]

-----------------------------------------------------------------------------
(* Operations: [kind, start, end, new], start and end being lines as the    *)
(* editor saw them, with their numbers.                                     *)

Inserting == {"insert_before", "insert_after"}
Spanning == {"replace", "delete"}

Anchored(f, n) == [line |-> n, text |-> f[n].text, id |-> f[n].id]

Fits(f, a) == a.line \in DOMAIN f /\ f[a.line].text = a.text

AnchorFailure(f, a) ==
  IF Cardinality({n \in DOMAIN f : f[n].text = a.text}) > 1
  THEN "ambiguous_anchor" ELSE "stale_reference"

\* resolve_operation
OpFailures(f, op) ==
  IF ~Fits(f, op.start) THEN {AnchorFailure(f, op.start)}
  ELSE IF ~Fits(f, op.end) THEN {AnchorFailure(f, op.end)}
  ELSE IF op.end.line < op.start.line THEN {"invalid_request"} ELSE {}

Spans(op) == op.kind \in Spanning

\* validate_overlaps
Overlap(ops) ==
  \E i, j \in DOMAIN ops :
    LET at == ops[i].start.line
    IN  /\ i # j /\ Spans(ops[j]) /\ at \in ops[j].start.line..ops[j].end.line
        /\ \/ Spans(ops[i])
           \/ at > ops[j].start.line
           \/ ops[i].kind = "insert_after" /\ ops[j].start.line < ops[j].end.line

\* The first failure, if any: of the operations in turn, then of all.
Failures(f, ops) ==
  LET bad == {i \in DOMAIN ops : OpFailures(f, ops[i]) # {}}
  IN  IF bad # {} THEN OpFailures(f, ops[CHOOSE i \in bad : \A j \in bad : i <= j])
      ELSE IF Overlap(ops) THEN {"invalid_request"} ELSE {}

Precedence == [insert_after |-> 3, replace |-> 2, delete |-> 1, insert_before |-> 0]

\* Wrong variant: operations on one line are applied in the order of the request.
FirstInFile(ops, i, j) ==
  \/ ops[i].start.line > ops[j].start.line
  \/ ops[i].start.line = ops[j].start.line /\ i < j

\* Which operation is applied first: the one further down.
First(ops, i, j) ==
  LET P(k) == Precedence[ops[k].kind]
  IN  \/ ops[i].start.line > ops[j].start.line
      \/ /\ ops[i].start.line = ops[j].start.line
         /\ P(i) > P(j) \/ (P(i) = P(j) /\ i > j)

\* apply_resolved_operation
Splice(ls, op) ==
  LET before == IF op.kind = "insert_after" THEN op.start.line ELSE op.start.line - 1
      after == IF op.kind \in Inserting THEN before ELSE op.end.line
  IN  SubSeq(ls, 1, before) \o Fresh(Pieces(op.new)) \o SubSeq(ls, after + 1, Len(ls))

\* The operations sorted as they are applied.
Sorted(ops) ==
  CHOOSE order \in [DOMAIN ops -> DOMAIN ops] :
    \A i, j \in DOMAIN ops : i < j => First(ops, order[i], order[j])

Rewritten(f, ops) ==
  Content(Faithful(FoldLeft(LAMBDA ls, i : Splice(ls, ops[i]), f, Sorted(ops)), f))

-----------------------------------------------------------------------------
(* Actions.                                                                *)

Edit(f, ops, new) == [from |-> f, ops |-> ops, new |-> new]
NoEdit == Edit(<<>>, <<>>, <<>>)

Contents ==
  UNION { { [i \in 1..n |-> [text |-> t[i], ending |-> b[i], id |-> i]] :
              t \in [1..n -> Texts],
              b \in { e \in [1..n -> {"lf", "crlf", "none"}] : \A i \in 1..(n - 1) : e[i] # "none" } } :
          n \in 0..MaxLines }

Init ==
  /\ file \in {Content(ls) : ls \in Contents}
  /\ seen = [e \in Editors |-> <<>>]
  /\ pc = [e \in Editors |-> "idle"] /\ work = [e \in Editors |-> NoEdit]
  /\ report = [e \in Editors |-> "none"] /\ applied = [e \in Editors |-> FALSE]
  /\ temps = {} /\ calls = 0

\* The agent reads the file, and has the hashes of its lines from it.
Look(e) ==
  /\ pc[e] = "idle" /\ seen[e] # file /\ seen' = [seen EXCEPT ![e] = file]
  /\ UNCHANGED <<file, pc, work, report, applied, temps, calls>>

Operations(f) ==
  [kind : Inserting \cup Spanning, start : {Anchored(f, n) : n \in DOMAIN f},
   end : {Anchored(f, n) : n \in DOMAIN f}, new : UNION {[1..n -> Texts] : n \in 0..MaxNew}]

\* What HashlineEdit::validate_contract lets through.
Valid(op) ==
  /\ op.kind \in Inserting => op.end = op.start
  /\ (op.kind = "delete") = (op.new = <<>>)

Requests(e) ==
  LET one == {op \in Operations(seen[e]) : Valid(op)}
  IN  {<<op>> : op \in one} \cup (IF e \in Doubles THEN one \X one ELSE {})

\* finalize_outcome: the artifact and the metric of the call are written, or
\* one of them is not, which takes the place of the outcome.
Outcomes(kind) == {kind, "telemetry_unavailable"}

\* The call ends without a change of the file.
Refuse(e, kind) ==
  /\ \E outcome \in Outcomes(kind) : report' = [report EXCEPT ![e] = outcome]
  /\ applied' = [applied EXCEPT ![e] = FALSE]
  /\ UNCHANGED <<pc, work>>

Begin(e, edit) ==
  /\ pc' = [pc EXCEPT ![e] = "writing"] /\ work' = [work EXCEPT ![e] = edit]
  /\ UNCHANGED <<report, applied>>

\* HashlineEditEngine::apply as far as the new content.
Hashline(e) ==
  /\ pc[e] = "idle" /\ calls < MaxEdits /\ calls' = calls + 1
  /\ \E ops \in Requests(e) :
       IF Failures(file, ops) # {}
       THEN \E kind \in Failures(file, ops) : Refuse(e, kind)
       ELSE LET new == Rewritten(file, ops)
            IN  IF Canonical(new) = Canonical(file) THEN Refuse(e, "no_op")
                ELSE Begin(e, Edit(file, ops, new))
  /\ UNCHANGED <<file, seen, temps>>

\* PatchEditEngine::apply: exactly one line has the text.
Patch(e) ==
  /\ pc[e] = "idle" /\ calls < MaxEdits /\ calls' = calls + 1
  /\ \E t, u \in Texts :
       LET at == {n \in DOMAIN file : file[n].text = t}
       IN  IF t = Empty THEN Refuse(e, "invalid_request")
           ELSE IF at = {} THEN Refuse(e, "stale_reference")
           ELSE IF Cardinality(at) > 1 THEN Refuse(e, "ambiguous_anchor")
           ELSE \E n \in at :
                  Begin(e, Edit(file, <<>>, Content([file EXCEPT ![n] = [@ EXCEPT !.text = u]])))
  /\ UNCHANGED <<file, seen, temps>>

\* atomic_replace renames the temporary file.
Replace(e) ==
  /\ pc[e] = "writing" /\ file' = work[e].new
  /\ pc' = [pc EXCEPT ![e] = "idle"] /\ work' = [work EXCEPT ![e] = NoEdit]
  /\ applied' = [applied EXCEPT ![e] = TRUE]
  /\ \E outcome \in Outcomes("applied") : report' = [report EXCEPT ![e] = outcome]
  /\ UNCHANGED <<seen, temps, calls>>

\* It fails, and removes the temporary file only when it is the rename that
\* failed.
ReplaceFails(e) ==
  /\ pc[e] = "writing"
  /\ pc' = [pc EXCEPT ![e] = "idle"] /\ work' = [work EXCEPT ![e] = NoEdit]
  /\ temps' \in {temps, temps \cup {e}}
  /\ applied' = [applied EXCEPT ![e] = FALSE]
  /\ \E outcome \in Outcomes("io_error") : report' = [report EXCEPT ![e] = outcome]
  /\ UNCHANGED <<file, seen, calls>>

Next == \E e \in Editors : Look(e) \/ Hashline(e) \/ Patch(e) \/ Replace(e) \/ ReplaceFails(e)

Spec == Init /\ [][Next]_vars

-----------------------------------------------------------------------------
(* Properties.                                                             *)

TypeOK ==
  /\ \A i \in DOMAIN file : file[i].text \in Texts /\ file[i].ending \in {"lf", "crlf", "none"}
  /\ pc \in [Editors -> {"idle", "writing"}]
  /\ applied \in [Editors -> BOOLEAN] /\ temps \subseteq Editors /\ calls \in 0..MaxEdits

\* What the operations say, line by line of the file they were made for: the
\* insertions before a line in the order of the request, the line or what is
\* put in the place of its span, the insertions after it.
Asked(f, ops) ==
  LET Inserted(kind, n) ==
        FlattenSeq([i \in DOMAIN ops |->
          IF ops[i].kind = kind /\ ops[i].start.line = n THEN Pieces(ops[i].new) ELSE <<>>])
      Over(n) == {i \in DOMAIN ops : Spans(ops[i]) /\ n \in ops[i].start.line..ops[i].end.line}
      Own(n) == IF Over(n) = {} THEN <<f[n].text>>
                ELSE FlattenSeq([i \in DOMAIN ops |->
                       IF i \in Over(n) /\ ops[i].start.line = n THEN Pieces(ops[i].new) ELSE <<>>])
  IN  FlattenSeq([n \in DOMAIN f |->
        Inserted("insert_before", n) \o Own(n) \o Inserted("insert_after", n)])

\* Whatever order the operations of a request came in and however they lie to
\* each other: the file that is going to be written has the lines they say,
\* no line but the last changed its break, and the end of the file is as before,
\* except that a last line which they leave empty is none where the file ended
\* without a break; it then ends in the break in front of that line.
EditsMatchRequest ==
  \A e \in Editors :
    LET edit  == work[e]
        asked == Asked(edit.from, edit.ops)
        ended == EndsInBreak(edit.from)
        none  == ~ended /\ asked # <<>> /\ asked[Len(asked)] = Empty
    IN  pc[e] = "writing" /\ edit.ops # <<>> =>
          /\ [i \in DOMAIN edit.new |-> edit.new[i].text] = IF none THEN Front(asked) ELSE asked
          /\ edit.new # <<>> => EndsInBreak(edit.new) = (ended \/ none)
          /\ \A i \in DOMAIN edit.new, n \in DOMAIN edit.from :
               /\ edit.new[i].id = edit.from[n].id /\ edit.new[i].id # 0
               /\ i < Len(edit.new) /\ n < Len(edit.from)
               => edit.new[i] = edit.from[n]

\* "Stale or ambiguous anchors fail explicitly": an operation is applied to
\* the line whose anchor it names, or to none.  The code does not keep it: an
\* anchor is a number and a text, and another line may have come to have both.
AnchorsHold ==
  \A e \in Editors : pc[e] = "writing" =>
    \A i \in DOMAIN work[e].ops :
      LET a == work[e].ops[i].start
      IN  work[e].from[a.line].id = a.id

\* "telemetry failure does not fail successful edit": an edit that changed the
\* file is not reported as an error to the session.  The code does not keep it:
\* metrics that cannot be written put their failure into the edit's observation,
\* and diagnostics_from_edit_observations makes an error of it.
AppliedIsSuccess == \A e \in Editors : applied[e] => report[e] = "applied"
=============================================================================
