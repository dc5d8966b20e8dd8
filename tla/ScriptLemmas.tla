----------------------------- MODULE ScriptLemmas ----------------------------
(***************************************************************************)
(* Facts the proofs of every protocol need: about a channel that holds at  *)
(* most one message, about least elements, and about the rule that a       *)
(* scripted server takes.                                                  *)
(***************************************************************************)
EXTENDS ResponseRules, WellFoundedInduction, TLAPS

-----------------------------------------------------------------------------
(* A channel never holds more than one message.                            *)

\* A message taken from a channel is one of its messages, and what is left of
\* a channel of one message is empty.
LEMMA TakeOne ==
    ASSUME NEW S, NEW s \in Seq(S), s # <<>>
    PROVE  /\ Head(s) \in S
           /\ Tail(s) \in Seq(S)
           /\ Len(Tail(s)) = Len(s) - 1
           /\ Len(s) >= 1
           /\ Len(s) <= 1 => Tail(s) = <<>>
  OBVIOUS

\* A message put on an empty channel is the one at its head.
LEMMA PutOne ==
    ASSUME NEW S, NEW m \in S
    PROVE  /\ Append(<<>>, m) \in Seq(S)
           /\ Append(<<>>, m) # <<>>
           /\ Len(Append(<<>>, m)) = 1
           /\ Head(Append(<<>>, m)) = m
  OBVIOUS

\* A channel is empty when its length is not positive.
LEMMA ChannelLength ==
    ASSUME NEW S, NEW s \in Seq(S)
    PROVE  /\ Len(s) \in Nat
           /\ Len(s) = 0 <=> s = <<>>
  OBVIOUS

\* The empty channel has every type.
LEMMA EmptyChannel ==
    ASSUME NEW S
    PROVE  <<>> \in Seq(S)
  OBVIOUS

\* One channel is empty and the other holds at most one message.
LEMMA AtMostOne ==
    ASSUME NEW s, NEW t, s = <<>>, t = <<>> \/ \E m : t = <<m>>
    PROVE  Len(s) + Len(t) <= 1 /\ Len(t) + Len(s) <= 1
  <1> DEFINE l == Len(s)
             k == Len(t)
  <1>1. l = 0
    OBVIOUS
  <1>2. k \in {0, 1}
    OBVIOUS
  <1> HIDE DEF l, k
  <1>3. l + k <= 1 /\ k + l <= 1
    BY <1>1, <1>2
  <1> QED
    BY <1>3, Zenon DEF l, k

-----------------------------------------------------------------------------
(* Least elements and the rule engine.                                     *)

\* A non-empty set of natural numbers has a least element.
LEMMA LeastNatural ==
    ASSUME NEW T, T \subseteq Nat, T # {}
    PROVE  \E x \in T : \A y \in T : x <= y
  <1> DEFINE R == OpToRel(<, Nat)
  <1>1. IsWellFoundedOn(R, Nat)
    BY NatLessThanWellFounded, Zenon
  <1>2. ASSUME NEW y \in Nat, NEW x \in Nat, ~(<<y, x>> \in R)
        PROVE  x <= y
    BY <1>2 DEF OpToRel
  <1>3. PICK x \in T : \A y \in T : ~(<<y, x>> \in R)
    <2> HIDE DEF R
    <2> QED
      BY <1>1, WFMin
  <1> QED
    BY <1>2, <1>3

\* The rule a request takes is the first candidate, and a rule of the script.
LEMMA RulePosIsFirst ==
    ASSUME NEW S, NEW rules \in Seq(S), NEW idx \in Nat \ {0}, NEW kind,
           Candidates(rules, idx, kind) # {}
    PROVE  /\ RulePos(rules, idx, kind) \in Candidates(rules, idx, kind)
           /\ RulePos(rules, idx, kind) \in 1..Len(rules)
           /\ \A q \in Candidates(rules, idx, kind) : RulePos(rules, idx, kind) <= q
  <1>1. Candidates(rules, idx, kind) \subseteq Nat
    BY DEF Candidates
  <1>2. \E p \in Candidates(rules, idx, kind) :
            \A q \in Candidates(rules, idx, kind) : p <= q
    BY <1>1, LeastNatural
  <1>3. /\ RulePos(rules, idx, kind) \in Candidates(rules, idx, kind)
        /\ \A q \in Candidates(rules, idx, kind) : RulePos(rules, idx, kind) <= q
    BY <1>2, Zenon DEF RulePos
  <1>4. Candidates(rules, idx, kind) \subseteq 1..Len(rules)
    BY DEF Candidates
  <1> QED
    BY <1>3, <1>4, Zenon
=============================================================================
