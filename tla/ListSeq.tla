-------------------------------- MODULE ListSeq --------------------------------
(***************************************************************************)
(* What the linked list of adlist.py promises: a sequence of values that   *)
(* grows at both ends or next to one of its elements.  AdList, as          *)
(* AdListCalls observes it, implements this module.                        *)
(***************************************************************************)
EXTENDS Integers, Sequences, SequencesExt

CONSTANTS Vals,     \* the values a caller may store
          Places,   \* the places a caller may ask for
          None      \* the answer None

VARIABLES seq,      \* the values, from head to tail
          asked,    \* the last call, with its arguments
          at,       \* the place of the node it answered
          copy      \* the values it copied

vars == <<seq, asked, at, copy>>

Init == seq = <<>> /\ asked = <<>> /\ at = None /\ copy = <<>>

Call(request, s, place, values) ==
  asked' = request /\ seq' = s /\ at' = place /\ copy' = values
Update(request, s) == Call(request, s, None, <<>>)
Answer(request, place) == Call(request, seq, place, <<>>)

\* A new element goes to place i.
Insert(i, v) == Update(<<"insert", i, v>>, InsertAt(seq, i, v))
Delete(i) == Update(<<"delete", i>>, RemoveAt(seq, i))
Rotate == seq # <<>> /\ Update(<<"rotate">>, <<Last(seq)>> \o Front(seq))

Search(v) ==
  IF v \in ToSet(seq)
  THEN \E i \in DOMAIN seq : /\ seq[i] = v /\ \A j \in 1 .. i - 1 : seq[j] # v
                             /\ Answer(<<"search", v>>, i)
  ELSE Answer(<<"search", v>>, None)

\* Places count from 0 at the head, and from -1 at the tail.
Index(k) ==
  LET i == IF k < 0 THEN Len(seq) + k + 1 ELSE k + 1
  IN  Answer(<<"index", k>>, IF i \in DOMAIN seq THEN i ELSE None)

\* An iterator leaves the sequence alone.
Iterate == Update(<<"iterate">>, seq)

Dup == Call(<<"dup">>, seq, None, seq)

Next ==
  \/ \E v \in Vals : Search(v) \/ \E i \in 1 .. Len(seq) + 1 : Insert(i, v)
  \/ \E i \in DOMAIN seq : Delete(i)
  \/ \E k \in Places : Index(k)
  \/ Rotate \/ Dup \/ Iterate

Spec == Init /\ [][Next]_vars
=============================================================================
