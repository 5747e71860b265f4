--------------------------- MODULE RequestHandoff ---------------------------
(* Requests of the monthly backfill between planning and dispatch: the row in *)
(* manager_request, the payload file behind its parameter_ref and the binding *)
(* with the hash of that file.  A request is named by source, symbol and month*)
(* only, so that the ETF batch of a layer and the target-local batch of the   *)
(* same symbol plan one request with two contents (policy refs, priority).    *)
(* The rows of a batch are one transaction, and so are its bindings; the files*)
(* are written one by one in between.  No lock is taken.                      *)
EXTENDS Naturals, Sequences, FiniteSetsExt, Functions

CONSTANTS
    Requests,   \* ids of requests
    Batches,    \* per batch, the requests it plans, in their order
    Commands,   \* what is run: kind, batch, write (files), persist (SQL)
    Processes,
    MaxCommands \* bound on commands

\* A preparation that writes neither files nor rows touches nothing, and bindings are not
\* materialized without files.  The id of a promotion request is made of what is
\* promoted: no other batch plans it.
ASSUME HandoffAssumption ==
    /\ MaxCommands \in Nat
    /\ "nothing" \notin DOMAIN Batches /\ \A b \in DOMAIN Batches : Batches[b] \in Seq(Requests)
    /\ Commands \subseteq [kind : {"prepare", "materialize", "validate", "promote"},
                          batch : DOMAIN Batches, write : BOOLEAN, persist : BOOLEAN]
    /\ \A c \in Commands : /\ c.kind = "prepare" => c.write \/ c.persist
                           /\ c.kind = "materialize" => c.write
    /\ \A c, d \in Commands :
          c.kind = "promote" /\ d.kind \in {"prepare", "promote"} /\ c.batch # d.batch
              => Range(Batches[c.batch]) \cap Range(Batches[d.batch]) = {}

VARIABLES
    row,      \* per request, the content of its row
    file,     \* per request, the content of its payload file
    binding,  \* per request, the content its binding has the hash of
    proc,     \* per process, the command it runs and what it holds
    begun,    \* commands begun
    broken,   \* history: requests of commands that ended early, wrote one side only, or did not check
    crossed   \* history: requests two commands were busy with
handoffVars == <<row, file, binding, proc, begun, broken, crossed>>

Nothing == "nothing"
Vacant == [pc |-> "idle"]
Contents == DOMAIN Batches \cup {Nothing}
Busy(p) == proc[p].pc # "idle"
RequestsOf(p) == DOMAIN proc[p].rows
Touches(p, r) == Busy(p) /\ r \in RequestsOf(p)

\* plan_monthly_backfill_requests, plan_target_local_alpaca_bar_requests
Planned(c) == [r \in Range(Batches[c.batch]) |-> c.batch]

\* fetch_manager_requests: the rows asked for that are there.
Fetched(c) == [r \in {q \in DOMAIN Planned(c) : row[q] # Nothing} |-> row[r]]

\* The files are written and checked in the order of the batch, of which these are the
\* places that have a row.
Places(c, rows) == {i \in DOMAIN Batches[c.batch] : Batches[c.batch][i] \in DOMAIN rows}
At(p) == Batches[proc[p].cmd.batch][Min(proc[p].todo)]

\* Where a command goes when its rows are known (prepare_layer_historical_training_batch,
\* request_payloads.main, request_handoff.main, model_promotion_review_main).
First(c) ==
    CASE c.kind = "validate"             -> "bindings"
      [] c.kind = "promote"              -> "persist"
      [] c.kind = "prepare" /\ c.persist -> "persist"
      [] OTHER                           -> IF c.write THEN "files" ELSE "bind"

AfterFiles(c) == IF c.persist THEN "bind" ELSE IF c.kind = "prepare" THEN "check" ELSE "end"
AfterBind(c) == IF c.kind = "prepare" /\ c.write THEN "check" ELSE "end"

\* A command writes both sides of a request or leaves it as it is; these do not.
OneSided(c) == c.kind \in {"prepare", "materialize"} /\ c.write # c.persist

HandoffInit ==
    /\ row = [r \in Requests |-> Nothing] /\ file = row /\ binding = row
    /\ proc = [p \in Processes |-> Vacant]
    /\ begun = 0 /\ broken = {} /\ crossed = {}

\* Requests of these rows that other commands are busy with.
Met(p, rows) == {r \in DOMAIN rows : \E q \in Processes \ {p} : Touches(q, r)}

\* A materialization checks nothing behind its bindings.
Unchecked(p, c, rows) ==
    {r \in Met(p, rows) : c.kind = "materialize" \/ \E q \in Processes \ {p} :
                              Touches(q, r) /\ proc[q].cmd.kind = "materialize"}

Enter(p, c, rows) ==
    /\ proc' = [proc EXCEPT ![p] = [pc |-> First(c), cmd |-> c, rows |-> rows, held |-> binding,
                                    todo |-> Places(c, rows)]]
    /\ crossed' = crossed \cup Met(p, rows)
    /\ broken' = broken \cup (IF OneSided(c) THEN DOMAIN rows ELSE Unchecked(p, c, rows))

Begin(p, c) ==
    /\ ~Busy(p) /\ begun < MaxCommands
    /\ begun' = begun + 1
    /\ Enter(p, c, IF c.kind \in {"prepare", "promote"} THEN Planned(c) ELSE Fetched(c))
    /\ UNCHANGED <<row, file, binding>>

Moved(p, pc) ==
    IF pc = "end" THEN Vacant
    ELSE [proc[p] EXCEPT !.pc = pc, !.todo = Places(proc[p].cmd, proc[p].rows)]
MoveTo(p, pc) == [proc EXCEPT ![p] = Moved(p, pc)]

\* persist_manager_requests: an upsert of the whole row.  A promotion request ends
\* here, under its locks: its parameters are no file of the manager.
PersistRows(p) ==
    /\ proc[p].pc = "persist"
    /\ row' = [r \in Requests |-> IF r \in RequestsOf(p) THEN proc[p].rows[r] ELSE row[r]]
    /\ proc' = MoveTo(p, IF proc[p].cmd.kind = "promote" THEN "end"
                       ELSE IF proc[p].cmd.write THEN "files" ELSE "bind")
    /\ UNCHANGED <<file, binding, begun, broken, crossed>>

\* materialize_request_payload
WriteFile(p) ==
    /\ proc[p].pc = "files" /\ proc[p].todo # {}
    /\ file' = [file EXCEPT ![At(p)] = proc[p].rows[At(p)]]
    /\ proc' = [proc EXCEPT ![p].todo = @ \ {Min(@)}]
    /\ UNCHANGED <<row, binding, begun, broken, crossed>>

FilesDone(p) ==
    /\ proc[p].pc = "files" /\ proc[p].todo = {}
    /\ proc' = MoveTo(p, AfterFiles(proc[p].cmd))
    /\ UNCHANGED <<row, file, binding, begun, broken, crossed>>

\* persist_input_bindings: one binding per request, whoever plans it.
Bind(p) ==
    /\ proc[p].pc = "bind"
    /\ binding' = [r \in Requests |-> IF r \in RequestsOf(p) THEN proc[p].rows[r] ELSE binding[r]]
    /\ proc' = MoveTo(p, AfterBind(proc[p].cmd))
    /\ UNCHANGED <<row, file, begun, broken, crossed>>

\* fetch_input_bindings, after the rows were fetched.
FetchBindings(p) ==
    /\ proc[p].pc = "bindings"
    /\ proc' = [proc EXCEPT ![p] = [Moved(p, "check") EXCEPT !.held = binding]]
    /\ UNCHANGED <<row, file, binding, begun, broken, crossed>>

\* Mutant: the file is only required to be there.
PresentOnly(p, r) == file[r] # Nothing

\* _validate_input_binding: a prepared batch is checked against its own bindings,
\* a handoff from the database against those it fetched.
Accepts(p, r) ==
    /\ file[r] # Nothing
    /\ file[r] = IF proc[p].cmd.kind = "prepare" THEN proc[p].rows[r] ELSE proc[p].held[r]

\* validate_request_handoffs: the first mismatch raises.
Check(p) ==
    /\ proc[p].pc = "check" /\ proc[p].todo # {}
    /\ IF Accepts(p, At(p))
       THEN proc' = [proc EXCEPT ![p].todo = @ \ {Min(@)}] /\ UNCHANGED broken
       ELSE /\ proc' = [proc EXCEPT ![p] = Vacant]
            /\ broken' = IF proc[p].cmd.kind = "prepare" THEN broken \cup RequestsOf(p) ELSE broken
    /\ UNCHANGED <<row, file, binding, begun, crossed>>

Checked(p) ==
    /\ proc[p].pc = "check" /\ proc[p].todo = {}
    /\ proc' = [proc EXCEPT ![p] = Vacant]
    /\ UNCHANGED <<row, file, binding, begun, broken, crossed>>

\* The operator interrupts a command, or SQL is unreachable.
Break(p) ==
    /\ Busy(p)
    /\ broken' = IF proc[p].cmd.kind = "validate" THEN broken ELSE broken \cup RequestsOf(p)
    /\ proc' = [proc EXCEPT ![p] = Vacant]
    /\ UNCHANGED <<row, file, binding, begun, crossed>>

HandoffStep(p) ==
    \/ \E c \in Commands : Begin(p, c)
    \/ PersistRows(p) \/ WriteFile(p) \/ FilesDone(p) \/ Bind(p)
    \/ FetchBindings(p) \/ Check(p) \/ Checked(p) \/ Break(p)

HandoffNext == \E p \in Processes : HandoffStep(p)
HandoffSpec == HandoffInit /\ [][HandoffNext]_handoffVars

-----------------------------------------------------------------------------
(* Properties.                                                                *)

HandoffTypeOK ==
    /\ row \in [Requests -> Contents] /\ file \in [Requests -> Contents]
    /\ binding \in [Requests -> Contents]
    /\ broken \subseteq Requests /\ crossed \subseteq Requests

AtRest(r) == \A p \in Processes : ~Touches(p, r)

\* When nobody is busy with a request, its file has the hash of its binding, in
\* whatever order the writers of two batches interleaved: the check behind the
\* bindings makes at least one of them raise otherwise.  Excepted is what ended
\* early or wrote one side only, and what request_payloads.py materialized beside
\* another writer: it binds without that check.
FileIsBound == \A r \in Requests \ broken : AtRest(r) => file[r] = binding[r]

\* The row need not be that of the file when two commands overlapped: the check
\* compares the file with the binding, and neither with the row in SQL.
RowIsOfTheFile ==
    \A r \in Requests \ (broken \cup crossed) :
        AtRest(r) /\ binding[r] # Nothing => row[r] = file[r]

\* The three places of a request agree.
PlacesAgree == FileIsBound /\ RowIsOfTheFile
=============================================================================
