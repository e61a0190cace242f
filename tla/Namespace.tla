----------------------------- MODULE Namespace -----------------------------
(***************************************************************************)
(* What a file system promises its callers: names for files, and files     *)
(* that exist as long as they have a name or somebody holds them.  A file  *)
(* that is created is one that nobody has.                                 *)
(***************************************************************************)
EXTENDS Naturals

CONSTANTS Names, Files, Threads, None

VARIABLES names,  \* the file each name stands for, or None
          held    \* how many references each thread has to each file

Exists(f) == (\E n \in Names : names[n] = f) \/ (\E t \in Threads : held[t][f] > 0)

Init ==
  /\ names = [n \in Names |-> None]
  /\ held = [t \in Threads |-> [f \in Files |-> 0]]

Take(t, f) == held' = [held EXCEPT ![t][f] = @ + 1]

Create(t, n, f) ==
  /\ names[n] = None /\ ~Exists(f)
  /\ names' = [names EXCEPT ![n] = f]
  /\ Take(t, f)

Open(t, n) == names[n] # None /\ Take(t, names[n]) /\ UNCHANGED names

Dup(t, f) == held[t][f] > 0 /\ Take(t, f) /\ UNCHANGED names

Close(t, f) ==
  /\ held[t][f] > 0
  /\ held' = [held EXCEPT ![t][f] = @ - 1]
  /\ UNCHANGED names

Link(t, n, f) ==
  /\ held[t][f] > 0 /\ names[n] = None
  /\ names' = [names EXCEPT ![n] = f]
  /\ UNCHANGED held

Remove(n) ==
  /\ names[n] # None
  /\ names' = [names EXCEPT ![n] = None]
  /\ UNCHANGED held

Rename(n1, n2) ==
  /\ names[n1] # None /\ names[n2] = None
  /\ names' = [names EXCEPT ![n1] = None, ![n2] = names[n1]]
  /\ UNCHANGED held

Next ==
  \/ \E t \in Threads, n \in Names : Open(t, n)
  \/ \E t \in Threads, f \in Files : Dup(t, f) \/ Close(t, f)
  \/ \E t \in Threads, n \in Names, f \in Files : Create(t, n, f) \/ Link(t, n, f)
  \/ \E n \in Names : Remove(n)
  \/ \E n1, n2 \in Names : Rename(n1, n2)

Spec == Init /\ [][Next]_<<names, held>>
=============================================================================
