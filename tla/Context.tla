------------------------------ MODULE Context ------------------------------
(***************************************************************************)
(* ContextBuilder.build: a prompt of at most MaxBytes bytes is packed from *)
(* a required part and three lists, the more important list first. An item *)
(* is a text, of which only the size in bytes matters here.                *)
(*                                                                         *)
(* Operators named Bug_X are wrong versions of X, which no specification   *)
(* uses: with X replaced by Bug_X, a run must find its property violated.  *)
(***************************************************************************)
EXTENDS Naturals, Sequences, FiniteSets, FiniteSetsExt

CONSTANTS
  MaxBytes,    \* max_bytes, from max_observation_bytes of the configuration
  ItemCap      \* the part of an item that is used: safe[:4_000]

ASSUME SizesAssumption == {MaxBytes, ItemCap} \subseteq Nat

Categories == {"snippets", "observations", "memories"}

\* The required part must fit: nothing of it is left out.
TooBig(required) == required > MaxBytes

Size(item) == IF item < ItemCap THEN item ELSE ItemCap

\* The loop of take: it goes on while items fit and stops at the first that
\* does not.
\* An item that does not fit is passed over, and a smaller one taken instead.
Bug_Accepted(list, budget) ==
  LET after[n \in 0..Len(list)] ==
        IF n = 0 THEN [kept |-> {}, left |-> budget]
        ELSE LET before == after[n - 1] IN
             IF Size(list[n]) <= before.left
             THEN [kept |-> before.kept \cup {n}, left |-> before.left - Size(list[n])]
             ELSE before
  IN after[Len(list)]
Accepted(list, budget) ==
  LET after[n \in 0..Len(list)] ==
        IF n = 0 THEN [kept |-> {}, left |-> budget]
        ELSE LET before == after[n - 1] IN
             IF before.kept = 1..(n - 1) /\ Size(list[n]) <= before.left
             THEN [kept |-> 1..n, left |-> before.left - Size(list[n])]
             ELSE before
  IN after[Len(list)]

\* The three calls of take: the positions that are kept of each list.
Packed(required, items) ==
  LET room == MaxBytes - required
      snippets == Accepted(items["snippets"], room)
      room2 == snippets.left
      observations == Accepted(items["observations"], room2)
      room3 == observations.left
      memories == Accepted(items["memories"], room3)
  IN [c \in Categories |->
        CASE c = "snippets" -> snippets.kept
          [] c = "observations" -> observations.kept
          [] c = "memories" -> memories.kept]

-----------------------------------------------------------------------------
(* What a good packing is                                                   *)

SizeOf(list, S) == MapThenSumSet(LAMBDA i : Size(list[i]), S)

Used(items, kept, C) == MapThenSumSet(LAMBDA c : SizeOf(items[c], kept[c]), C)

Fits(required, items, kept) == required + Used(items, kept, Categories) <= MaxBytes

\* The lists that are served before c.
Before(c) ==
  CASE c = "snippets" -> {}
    [] c = "observations" -> {"snippets"}
    [] c = "memories" -> {"snippets", "observations"}

Longest(required, items, kept) ==
  \A c \in Categories :
    LET room == MaxBytes - required - Used(items, kept, Before(c))
        n == Cardinality(kept[c])
    IN /\ kept[c] = 1..n
       /\ n < Len(items[c]) => SizeOf(items[c], 1..(n + 1)) > room
=============================================================================
