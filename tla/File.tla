-------------------------------- MODULE File --------------------------------
(***************************************************************************)
(* What SFS promises of file contents: every file is an array of words of  *)
(* its own, with a size.  A request covers the words from pos to end, and  *)
(* gets through them in order until it is done or fails.                   *)
(***************************************************************************)
EXTENDS Naturals, Sequences

CONSTANTS Files, Words, Values

VARIABLES content, size, cur

Positions == Words \cup {w + 1 : w \in Words}
None == [pos |-> 0, end |-> 0]

Init ==
  /\ content = [f \in Files |-> [w \in Words |-> 0]]
  /\ size = [f \in Files |-> 0]
  /\ cur = None

\* A read stays below the size of the file.
Begin(f) ==
  /\ cur = None
  /\ \E write \in BOOLEAN, v \in Values :
       /\ cur' = [file |-> f, write |-> write, v |-> v, start |-> cur'.pos, pos |-> cur'.pos,
                  end |-> cur'.end, got |-> <<>>, failed |-> FALSE]
       /\ cur'.pos \in Words /\ cur'.pos < cur'.end
       /\ write \/ cur'.end <= size[f]
  /\ UNCHANGED <<content, size>>

\* The next words, up to p: written, or read.
Transfer(p) ==
  /\ cur # None /\ ~cur.failed /\ p > cur.pos /\ p <= cur.end
  /\ content' = [content EXCEPT ![cur.file] =
                   [w \in Words |-> IF cur.write /\ w \in cur.pos .. p - 1 THEN cur.v ELSE @[w]]]
  /\ cur' = [cur EXCEPT !.pos = p,
               !.got = IF cur.write THEN @
                       ELSE @ \o [i \in 1 .. p - cur.pos |-> content[cur.file][cur.pos + i - 1]]]
  /\ UNCHANGED size

\* The request fails; a write may by then have used up words it did not write.
Fail(p) ==
  /\ cur # None /\ ~cur.failed /\ p >= cur.pos /\ p <= cur.end
  /\ cur.write \/ p = cur.pos
  /\ cur' = [cur EXCEPT !.failed = TRUE, !.pos = p]
  /\ UNCHANGED <<content, size>>

\* A write that got anywhere extends the file to where it got.
Finish ==
  /\ cur # None /\ (cur.failed \/ cur.pos = cur.end)
  /\ size' = IF cur.write /\ cur.pos > cur.start /\ cur.pos > size[cur.file]
             THEN [size EXCEPT ![cur.file] = cur.pos] ELSE size
  /\ cur' = None
  /\ UNCHANGED content

\* One word, written for the file system itself.
Put(f, w, v) ==
  /\ cur = None
  /\ content' = [content EXCEPT ![f][w] = v]
  /\ size' = IF w + 1 > size[f] THEN [size EXCEPT ![f] = w + 1] ELSE size
  /\ UNCHANGED cur

\* The file is cut or grown to len.  What is below len stays; each word from
\* there on is cleared or still there when the file grows again.  When it fails
\* the size is the old one.
Truncate(f, len) ==
  /\ cur = None
  /\ content' = [g \in Files |-> [w \in Words |->
                   IF g = f /\ w >= len /\ content'[g][w] = 0 THEN 0 ELSE content[g][w]]]
  /\ size' \in {size, [size EXCEPT ![f] = len]}
  /\ UNCHANGED cur

Next ==
  \/ \E f \in Files : Begin(f)
  \/ \E p \in Positions : Transfer(p) \/ Fail(p)
  \/ Finish
  \/ \E f \in Files, w \in Words, v \in Values : Put(f, w, v)
  \/ \E f \in Files, len \in Positions : Truncate(f, len)
=============================================================================
