---------------------------- MODULE HookPayload ----------------------------
(***************************************************************************)
(* What the extension tells tackbox of one file mutation: js/omp/payload.js *)
(* reduces the input of the tool to targets before it runs, and the host's *)
(* result details after it; py/tackbox/hookproto.py accepts the request or *)
(* refuses it.  A refused request, like a failure of the adapter, is       *)
(* "unverified" to the host, which HookCall models.                        *)
(*                                                                         *)
(* The input is read row by row, and the model applies every row to a disk *)
(* of its own: that is what the tool would do, to compare the targets      *)
(* with.                                                                   *)
(*                                                                         *)
(* Abstractions.  A row is <<file, n>>: written by the n-th row of the     *)
(* input in a section of the file, or, with 0, the text the file had       *)
(* before.  Removed rows, and joining rows to fragments, are left out:     *)
(* neither decides what is accepted or covered.                            *)
(***************************************************************************)
EXTENDS Naturals, SequencesExt

CONSTANTS Paths, Existing,  \* the files named by the input; those there before
          NoPath,
          Steps, Sections   \* bounds: rows of the input, headers among them

ASSUME PathsAssumption ==
  Existing \subseteq Paths /\ IsFiniteSet(Existing) /\ NoPath \notin Paths

VARIABLES form,     \* "patch" text, an "edits" list of one file, or "direct"
          reading,  \* "input", then "sent" or "refused", then "reported"
          drafts,
          current,  \* the file of the open section, or of the edits list
          unknown,  \* the input cannot be classified
          steps,
          disk,     \* the files the tool makes of it so far, with their rows
          clean,    \* it can apply every row of it
          plain,    \* history: nothing is said of a path after it has moved or gone
          log,      \* the mutations, as the tool goes on to report them
          fate,     \* what became of each, and how it is reported
          after     \* after[<<i, j>>]: the j-th target of record i, as reported

ghost == <<disk, clean, plain, log>>
payloadVars == <<form, reading, drafts, current, unknown, steps, ghost, fate, after>>

-----------------------------------------------------------------------------
NoDraft == [op |-> "none"]
NewDraft == [op |-> "edit", stays |-> TRUE, added |-> {}, content |-> FALSE,
             ambiguous |-> FALSE, to |-> NoPath, pair |-> <<>>]
Drafted(ds) == {f \in Paths : ds[f] # NoDraft}

\* Mutant: every section starts a new draft.
FreshDraft(ds, f) == [ds EXCEPT ![f] = NewDraft]

DraftFor(ds, f) == IF ds[f] = NoDraft THEN [ds EXCEPT ![f] = NewDraft] ELSE ds

MarkDelete(ds, f) ==
  [ds EXCEPT ![f] = [NewDraft EXCEPT !.op = "delete", !.stays = FALSE]]

\* Mutant: the destination is not told of the move.
MarkSource(ds, f, g) ==
  [ds EXCEPT ![f] = [NewDraft EXCEPT !.op = "move", !.stays = FALSE,
                                     !.to = g, !.pair = <<f, g>>]]

\* The pair is written to the source and then to the destination, which may be
\* the same draft.
MarkMove(ds, f, g) ==
  LET from == [ds EXCEPT ![f] = [NewDraft EXCEPT !.op = "move", !.stays = FALSE,
                                                 !.to = g, !.pair = <<f, g>>]]
  IN  [from EXCEPT ![g] = [@ EXCEPT !.op = "move", !.stays = TRUE,
                                    !.ambiguous = TRUE, !.pair = <<f, g>>]]

\* moveDestination
Landing(ds, f) ==
  IF ds[f].op = "move" /\ ds[f].to # NoPath THEN ds[f].to ELSE f

Target(f, op, stays, pair) ==
  [path |-> f, op |-> op, stays |-> stays, pair |-> pair, added |-> {}, whole |-> FALSE]

\* finalizeDraft: what the operation does not carry is left out of the target.
FinalizeDraft(f, d) ==
  [Target(f, d.op, d.stays, IF d.op = "move" THEN d.pair ELSE <<>>)
     EXCEPT !.added = IF d.op = "delete" \/ (d.op = "move" /\ ~d.stays)
                      THEN {} ELSE d.added,
            !.whole = d.content \/ d.ambiguous]

Targets == [f \in Drafted(drafts) |-> FinalizeDraft(f, drafts[f])]

-----------------------------------------------------------------------------
(* The strict side, hookproto.py.                                          *)

ParseTarget(t) ==
  /\ t.op \in {"edit", "write"} => t.stays
  /\ t.op = "delete" => ~t.stays
  /\ t.op = "move" <=> t.pair # <<>>

\* A pair that uses one path twice has one target, which is no pair either.
ValidateMovePairs(ts) ==
  \A i \in DOMAIN ts : ts[i].op = "move" =>
    LET pair == {j \in DOMAIN ts : ts[j].op = "move" /\ ts[j].pair = ts[i].pair}
    IN  \E source, destination \in pair :
          /\ pair = {source, destination}
          /\ ~ts[source].stays /\ ts[destination].stays
          /\ ts[source].path # ts[destination].path

ParseRequest(ts) == (\A i \in DOMAIN ts : ParseTarget(ts[i])) /\ ValidateMovePairs(ts)

-----------------------------------------------------------------------------
(* Reading the input.                                                      *)

Original == [f \in Existing |-> {<<f, 0>>}]
There(f) == f \in DOMAIN disk
Put(f, rows) == [g \in DOMAIN disk \cup {f} |-> IF g = f THEN rows ELSE disk[g]]
Without(f) == [g \in DOMAIN disk \ {f} |-> disk[g]]
Moved(f, g) ==
  [h \in (DOMAIN disk \ {f}) \cup {g} |-> IF h = g THEN disk[f] ELSE disk[h]]

\* The file a row is for: the entries of a list follow it to its new name.
Here == IF form = "edits" THEN Landing(drafts, current) ELSE current

\* What a host makes of a list that renames or deletes the file again after a
\* rename is not known here: it counts as not applicable.
Certain == form = "edits" => Here = current

\* The tool applies the row, or cannot.
Applied(can, result) ==
  /\ clean' = (clean /\ can)
  /\ disk' = IF clean /\ can THEN result ELSE disk
Plainly(usual) == plain' = (plain /\ usual)

Entry(op, f, g, rows) == [op |-> op, path |-> f, to |-> g, rows |-> rows]
Logged(entry) == log' = Append(log, entry)
Amended(entry) == log' = [log EXCEPT ![Len(log)] = entry]

PayloadInit ==
  /\ form \in {"patch", "edits", "direct"} /\ reading = "input"
  /\ \/ form = "edits" /\ current \in Existing
     \/ form # "edits" /\ current = NoPath
  /\ drafts = [f \in Paths |-> IF f = current THEN NewDraft ELSE NoDraft]
  /\ unknown = FALSE /\ steps = 0
  /\ disk = Original /\ clean = TRUE /\ plain = TRUE
  /\ log = IF form = "edits" THEN <<Entry("edit", current, NoPath, {})>> ELSE <<>>
  /\ fate = <<>> /\ after = <<>>

Kept == UNCHANGED <<form, reading, fate, after>>
\* Bound: nothing follows the first row that the tool cannot apply.
Row == /\ form # "direct" /\ clean /\ reading = "input" /\ ~unknown
       /\ steps < Steps /\ steps' = steps + 1
       /\ Kept
SectionRow == Row /\ current # NoPath /\ UNCHANGED unknown

\* The inputs of one step: write, an edits list of nothing but one "create",
\* replace (old_string, new_string), or no more than the path fields.
Direct ==
  /\ form = "direct" /\ reading = "input" /\ log = <<>>
  /\ \/ \E f \in Paths :
          /\ drafts' = [drafts EXCEPT ![f] = [NewDraft EXCEPT !.op = "write", !.content = TRUE]]
          /\ Applied(TRUE, Put(f, {<<f, 1>>}))
          /\ Logged(Entry("write", f, NoPath, {<<f, 1>>}))
     \/ \E f \in Paths :
          /\ drafts' = [drafts EXCEPT ![f] = [NewDraft EXCEPT !.added = {<<f, 1>>}]]
          /\ Applied(There(f), Put(f, {<<f, 1>>}))
          /\ Logged(Entry("edit", f, NoPath, {<<f, 1>>}))
     \/ \E fs \in (SUBSET Existing) \ {{}} :
          /\ drafts' = [f \in Paths |->
               IF f \in fs THEN [NewDraft EXCEPT !.ambiguous = TRUE] ELSE NoDraft]
          /\ Applied(TRUE, [f \in Existing |-> IF f \in fs THEN {<<f, 1>>} ELSE disk[f]])
          /\ log' = SetToSeq({Entry("edit", f, NoPath, {<<f, 1>>}) : f \in fs})
  /\ UNCHANGED <<current, unknown, steps, plain>> /\ Kept

\* open(): a header or a sentinel names the file of the rows that follow.
\* "Add" sets the operation of the draft and nothing else.
OpenSection ==
  /\ Row /\ form = "patch" /\ Len(log) < Sections
  /\ \E f \in Paths, op \in {"edit", "write", "delete"} :
       LET ds == DraftFor(drafts, f)
       IN  /\ current' = f
           /\ drafts' = CASE op = "edit" -> ds
                          [] op = "write" -> [ds EXCEPT ![f].op = "write"]
                          [] op = "delete" -> MarkDelete(ds, f)
           /\ Applied(op = "write" \/ There(f),
                      CASE op = "edit" -> disk
                        [] op = "write" -> Put(f, {})
                        [] op = "delete" -> Without(f))
           /\ Plainly(drafts[f] = NoDraft \/ (op = "edit" /\ drafts[f].op = "edit"))
           /\ Logged(Entry(op, f, NoPath, {}))
  /\ UNCHANGED unknown

\* A row before any section.
EarlyRow ==
  /\ Row /\ current = NoPath
  /\ unknown' = TRUE
  /\ UNCHANGED <<drafts, current, ghost>>

\* An added row, or the diff of an "update"; or something the reader has no
\* name for (PUT with its text, a sloppy operation, a diff without a hunk).
TextRow ==
  /\ SectionRow
  /\ LET row == <<Here, steps'>>
     IN  /\ \/ drafts' = [drafts EXCEPT ![Here].added = @ \cup {row}]
            \/ drafts' = [drafts EXCEPT ![Here].ambiguous = TRUE]
         /\ Applied(There(Here), IF There(Here) THEN Put(Here, disk[Here] \cup {row}) ELSE disk)
         /\ Amended([Last(log) EXCEPT !.rows = @ \cup {row}])
  /\ UNCHANGED <<current, plain>>

\* MV in a patch, and the rename of an entry: further rows of a patch belong
\* to the destination.
MoveTo ==
  /\ SectionRow
  /\ \E g \in Paths :
       /\ drafts' = MarkMove(DraftFor(drafts, g), current, g)
       /\ current' = IF form = "patch" THEN g ELSE current
       /\ Applied(There(Here) /\ Certain,
                  IF There(Here) THEN Moved(Here, g) ELSE disk)
       /\ Plainly(drafts[g] = NoDraft /\ drafts[current].op \in {"edit", "write"})
       /\ IF form = "edits" \/ Last(log).op = "edit"
          THEN Amended([Last(log) EXCEPT !.op = "move", !.to = g])
          ELSE Logged(Entry("move", current, g, {}))

\* REM in a patch, the "delete" of an entry.
RemoveRow ==
  /\ SectionRow
  /\ drafts' = MarkDelete(drafts, current)
  /\ Applied(There(Here) /\ Certain, Without(Here))
  /\ Plainly(drafts[current].op \in {"edit", "write"})
  /\ IF form = "edits" THEN Amended([Last(log) EXCEPT !.op = "delete"])
     ELSE Logged(Entry("delete", current, NoPath, {}))
  /\ UNCHANGED current

\* The "create" of an entry among others.
CreateEntry ==
  /\ SectionRow /\ form = "edits"
  /\ drafts' = [drafts EXCEPT ![Here].op = "write", ![Here].stays = TRUE,
                              ![Here].ambiguous = TRUE]
  /\ Applied(TRUE, Put(Here, {<<Here, steps'>>}))
  /\ Plainly(drafts[current].op # "move")
  /\ Amended([Last(log) EXCEPT !.op = "write", !.rows = {<<Here, steps'>>}])
  /\ UNCHANGED current

\* The request goes to tackbox; an input that names no file is unknown.
Send ==
  /\ reading = "input" /\ (form = "edits" => steps > 0)
  /\ reading' = IF unknown \/ Drafted(drafts) = {} \/ ~ParseRequest(Targets)
                THEN "refused" ELSE "sent"
  /\ UNCHANGED <<form, drafts, current, unknown, steps, ghost, fate, after>>

-----------------------------------------------------------------------------
(* The result details.  The host reports a record per mutation, failed or   *)
(* landed, with the new text or "pruned" of it.  It is assumed to name      *)
(* every mutation: perFileResults whenever there is more than one.          *)

Fates == {"failed", "shown", "pruned"}

\* detailPaths
DetailTargets(e) ==
  CASE e.op = "delete" -> <<Target(e.path, "delete", FALSE, <<>>)>>
    [] e.op = "move" -> <<Target(e.path, "move", FALSE, <<e.path, e.to>>),
                          [Target(e.to, "move", TRUE, <<e.path, e.to>>) EXCEPT !.whole = TRUE]>>
    [] OTHER -> <<[Target(e.path, e.op, TRUE, <<>>) EXCEPT !.whole = TRUE]>>

\* Mutant: an intent of the same kind is as good as that of the same file.
SameKind(t, intent) == t.op = intent.op /\ t.stays = intent.stays

SameTarget(t, intent) ==
  t.path = intent.path /\ t.op = intent.op /\ t.stays = intent.stays

Matches(t) == {f \in Drafted(drafts) : SameTarget(t, Targets[f])}

\* A target whose text was pruned is given the text of the input.
MergePruned(t) ==
  LET intent == Targets[CHOOSE f \in Matches(t) : TRUE]
  IN  IF t.stays THEN [t EXCEPT !.added = intent.added, !.whole = intent.whole] ELSE t

\* normalizeResult: every pruned target takes an intent of its own, and a
\* single record must leave none over.
Unmatched(fates) ==
  LET pruned == UNION {{<<i, j>> : j \in DOMAIN DetailTargets(log[i])} :
                       i \in {k \in DOMAIN log : fates[k] = "pruned"}}
      match(p) == Matches(DetailTargets(log[p[1]])[p[2]])
  IN  \/ \E p \in pruned : match(p) = {}
      \/ \E p, q \in pruned : p # q /\ match(p) \cap match(q) # {}
      \/ /\ pruned # {} /\ Len(log) = 1
         /\ Drafted(drafts) # UNION {match(p) : p \in pruned}

Report ==
  /\ reading = "sent"
  /\ fate' \in [DOMAIN log -> Fates]
  /\ LET places == UNION {{i} \X DOMAIN DetailTargets(log[i]) :
                            i \in {k \in DOMAIN log : fate'[k] # "failed"}}
         Result(t, f) == IF f = "pruned" THEN MergePruned(t) ELSE t
         results == [p \in places |-> Result(DetailTargets(log[p[1]])[p[2]], fate'[p[1]])]
     IN  IF Unmatched(fate') THEN reading' = "unverified" /\ after' = <<>>
         ELSE /\ after' = results
              /\ reading' = IF ParseRequest(results) THEN "reported" ELSE "unverified"
  /\ UNCHANGED <<form, drafts, current, unknown, steps, ghost>>

PayloadNext == \/ Direct \/ OpenSection \/ EarlyRow \/ TextRow \/ MoveTo
               \/ RemoveRow \/ CreateEntry \/ Send \/ Report

PayloadSpec == PayloadInit /\ [][PayloadNext]_payloadVars

-----------------------------------------------------------------------------
(* Correctness.                                                            *)

\* What tackbox accepts before the tool is what the tool then does, if it can
\* do all of it: the targets name every file that changes, say rightly whether
\* it is there afterwards, and carry its new rows or say that they do not
\* (payload.js:236-333 rewrites the drafts row by row; what a target leaves
\* out is never asked about).
PreFaithful ==
  reading = "sent" /\ clean =>
    /\ \A f \in Drafted(drafts) : drafts[f].stays <=> There(f)
    /\ \A f \in Existing : f \notin Drafted(drafts) => There(f) /\ disk[f] = Original[f]
    /\ \A f \in DOMAIN disk :
         LET kept == IF f \in Existing THEN Original[f] ELSE {}
         IN  disk[f] \subseteq kept \/
             /\ f \in Drafted(drafts)
             /\ Targets[f].whole \/ disk[f] \ kept \subseteq Targets[f].added

\* What tackbox accepts after the tool is what landed: a target for every
\* record that did, with its rows or the word that they are not known, and none
\* for a record that failed.
PostFaithful ==
  reading = "reported" =>
    /\ \A i \in DOMAIN log : fate[i] # "failed" =>
         LET ts == DetailTargets(log[i])
         IN  \A j \in DOMAIN ts : \E k \in DOMAIN after :
               /\ after[k].path = ts[j].path
               /\ after[k].op = ts[j].op /\ after[k].stays = ts[j].stays
               /\ ts[j].stays => after[k].whole \/ log[i].rows \subseteq after[k].added
    /\ \A k \in DOMAIN after : \E i \in DOMAIN log :
         fate[i] # "failed" /\ after[k].path \in {log[i].path, log[i].to}

\* The strict reader refuses nothing a host plainly says: an input that speaks
\* of no file after it moved away, was removed or was the target of a move is
\* sent on.
PlainAccepted == reading = "refused" /\ plain => unknown \/ Drafted(drafts) = {}
=============================================================================
