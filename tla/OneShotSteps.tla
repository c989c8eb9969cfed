---------------------------- MODULE OneShotSteps ----------------------------
(* The vocabulary of the one-shot recovery controls. Every such control of the *)
(* repository has the same parts: an owner reviews the exact facts it was       *)
(* prepared from, backs up what it may touch, and one command then claims the   *)
(* attempt by creating a directory or a file with O_EXCL, re-reads the facts,    *)
(* claims each effect with a file of its own, performs it once and writes what  *)
(* it saw. Nothing of a claimed attempt is ever removed, retried or adopted.    *)
(*                                                                             *)
(* A control is therefore written down as its plan: the sequence of the steps  *)
(* its command takes, in the order of the code. This module names the steps;   *)
(* the modules that extend it hold the plans, one per control, and OneShot      *)
(* runs them. A record is a pair <<place, name>>: the directory of the attempt  *)
(* and the file in it, the name "dir" standing for the directory itself.       *)
EXTENDS Naturals, Sequences

Nowhere == <<"", "">>

\* Every step has the same fields; a kind uses the ones it needs.
Blank == [do |-> "see", facts |-> {}, absent |-> {}, present |-> {}, record |-> Nowhere,
          saves |-> Nowhere, skip |-> 0]

\* Re-read the reviewed facts: none has changed, no rival claim or owner stop is
\* there, and every record the control stands on is.
CheckOf(facts, absent, present) ==
    [Blank EXCEPT !.do = "check", !.facts = facts, !.absent = absent, !.present = present]

\* Create a directory or a file that must not be there yet (mkdir, O_EXCL).
Write(place, name) == [Blank EXCEPT !.do = "write", !.record = <<place, name>>]

\* Perform the native effect that the file `name` has claimed.
Send(place, name) == [Blank EXCEPT !.do = "send", !.record = <<place, name>>]

\* Replace this process by the native host that `name` has claimed (execve).
Exec(place, name) == [Blank EXCEPT !.do = "exec", !.record = <<place, name>>]

\* Commit the local effect claimed by `name`; the commit leaves the record `row`.
Commit(place, name, row) ==
    [Blank EXCEPT !.do = "commit", !.record = <<place, name>>, !.saves = <<place, row>>]

\* A native or file observation that must be as the plan expects it.
See == Blank

\* The registry and ledger write locks, held together.
Lock   == [Blank EXCEPT !.do = "lock"]
Unlock == [Blank EXCEPT !.do = "unlock"]

\* The next `skip` steps are taken or left out.
Fork(skip) == [Blank EXCEPT !.do = "fork", !.skip = skip]

\* Copy the protected files and databases to a new place; then list the copies.
Copy     == [Blank EXCEPT !.do = "copy"]
Manifest == [Blank EXCEPT !.do = "manifest"]
\* Refuse unless that list is there and the copies are those reviewed.
Verify   == [Blank EXCEPT !.do = "verify"]

\* The backup command of a control that re-reads its review with `check`.
BackupWith(check) == <<check, Copy, check, Manifest>>

Records(place, names) == {<<place, name>> : name \in names}

\* A control: where its attempt lives and the record that marks it claimed, the steps of its backup command, of its
\* confirmation up to its try block, and of that block; what it leaves behind
\* when a step of the block fails and in any case, and what it closes of what it
\* has opened (pairs of records); the records without which its status command
\* never reports success, and those by which it reports that the effect failed;
\* the places its stop command can mark; the effects it re-reads its review for
\* after claiming them; the records that other controls have left when it is
\* prepared.
Flow(place, backup, claim, body) ==
    [place |-> place, mark |-> <<place, "dir">>, backup |-> backup, claim |-> claim, body |-> body,
     failed |-> {}, always |-> {}, closes |-> {}, verdict |-> {}, denies |-> {}, stoppable |-> {},
     fenced |-> {}, before |-> {}]

=============================================================================
