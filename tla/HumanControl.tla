---------------------------- MODULE HumanControl ----------------------------
(* The command file of one run (human_control.py): the operators' consoles   *)
(* append suggestions and interrupts, the solve loop and the sandboxes read  *)
(* them. A console numbers a command after the commands it has read, under a *)
(* lock of its own process: two consoles may give one number to two commands *)
(* or append them out of order.                                              *)
EXTENDS Naturals, Sequences, FiniteSetsExt

CONSTANT MaxCommands          \* a bound: commands given in a run

ASSUME MaxCommandsAssumption == MaxCommands \in Nat

VARIABLE commands             \* the lines of the file

Kinds == {"suggestion", "interrupt"}
Commands == [kind : Kinds, number : Nat \ {0}]

NoCommands == commands = <<>>

Numbered(places) == {commands[n].number : n \in places}

\* HumanControlStore._append, by a console that has read the first `seen` lines.
Submit(kind) ==
    /\ Len(commands) < MaxCommands
    /\ \E seen \in 0 .. Len(commands) :
          commands' = Append(commands,
              [kind |-> kind, number |-> Max({0} \cup Numbered(1 .. seen)) + 1])

\* HumanControlStore.pending: the places of the commands numbered after a cursor.
Pending(cursor) == {n \in DOMAIN commands : commands[n].number > cursor}

\* HumanControlStore.is_interrupted: no cursor, any interrupt of the run.
IsInterrupted == \E n \in Pending(0) : commands[n].kind = "interrupt"

\* A command numbered after every command before it, as a lone console does.
InTurn(n) == \A m \in 1 .. n - 1 : commands[m].number < commands[n].number
=============================================================================
