---------------------------- MODULE ZettelVault ----------------------------
(***************************************************************************)
(* The notes of a vault, which metadata runs, index builds and the user's  *)
(* own editor share.  A text is its body, its generated metadata (0: none  *)
(* or incomplete) and whether it is cut short by a write that failed.      *)
(***************************************************************************)
EXTENDS Naturals, FiniteSets, Sequences, SequencesExt

CONSTANTS
  Notes,     \* how many notes the vault may hold, in the order of their paths
  Scenario   \* the cases a run explores

ASSUME VaultAssumption ==
  /\ Notes \in Nat
  /\ Scenario \subseteq
       [notes : [1..Notes -> [body : Nat, meta : Nat, cut : BOOLEAN]],
        limit : Nat, overwrite : BOOLEAN, workers : Nat \ {0}, batch : Nat \ {0},
        runs : Nat, builds : Nat, edits : Nat, faults : Nat, crashes : Nat, cancels : Nat]

VARIABLES
  scenario,  \* the case, and what may still happen
  note       \* the text of each note, or Gone

Note == 1..Notes
Text(body, meta) == [body |-> body, meta |-> meta, cut |-> FALSE]
Cut(text) == [text EXCEPT !.cut = TRUE]
Gone == [body |-> 0, meta |-> 0, cut |-> TRUE]

Spend(what) == scenario[what] > 0 /\ scenario' = [scenario EXCEPT ![what] = @ - 1]

\* ScanNotes; the notes are the Markdown files in scope.
ScanNotes == {n \in Note : note[n] # Gone}

VaultInit == scenario \in Scenario /\ note = scenario.notes

\* The user writes a note in Obsidian, or deletes it.
Edit(n) ==
  /\ Spend("edits")
  /\ \/ note[n] # Gone /\ note' \in {[note EXCEPT ![n].body = @ + 1], [note EXCEPT ![n] = Gone]}
     \/ note[n] = Gone /\ note' = [note EXCEPT ![n] = Text(1, 0)]
=============================================================================
