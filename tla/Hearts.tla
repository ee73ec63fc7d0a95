------------------------------- MODULE Hearts -------------------------------
(***************************************************************************)
(* The rules of the card game of Kierki as the server and the automatic    *)
(* player apply them: who takes a trick, what a deal is worth, and which   *)
(* card the automatic player puts down.                                    *)
(***************************************************************************)
EXTENDS Integers, Sequences, FiniteSets, SequencesExt

CONSTANTS
  Tricks,       \* tricks of a deal (13)
  BonusTricks   \* tricks that cost ten in deals of type 6 and 7 (the 7th and the 13th)

ASSUME HeartsAssumption == Tricks \in Nat \ {0} /\ BonusTricks \subseteq 1 .. Tricks

Seat == 0 .. 3
After(s, k) == (s + k) % 4

Suits == <<"C", "D", "H", "S">>    \* in the order of the map cards_by_suit
Card == [suit : Range(Suits), value : 2 .. 14]
Jack == 11
Queen == 12
King == 13

(* The seat that takes a trick led by `lead`: the highest card of the suit *)
(* of the first one, the earlier of two alike.                             *)
Winner(cards, lead) ==
  LET inSuit == {i \in DOMAIN cards : cards[i].suit = cards[1].suit}
      best == {i \in inSuit : \A k \in inSuit : cards[k].value <= cards[i].value}
  IN After(lead, (CHOOSE i \in best : \A k \in best : i <= k) - 1)

CountOf(cards, which) == Cardinality({i \in DOMAIN cards : cards[i] \in which})
WithSuit(s) == {c \in Card : c.suit = s}
WithValue(v) == {c \in Card : c.value \in v}

(* What the n-th trick costs whoever took it.  A deal of type 7 asks for   *)
(* all that the other types ask for.                                       *)
Cost(type, cards, n) ==
  LET asks(t) == type \in {t, 7} IN
    (IF asks(1) THEN 1 ELSE 0)
  + (IF asks(2) THEN CountOf(cards, WithSuit("H")) ELSE 0)
  + (IF asks(3) THEN 5 * CountOf(cards, WithValue({Queen})) ELSE 0)
  + (IF asks(4) THEN 2 * CountOf(cards, WithValue({Jack, King})) ELSE 0)
  + (IF asks(5) THEN 18 * CountOf(cards, {[suit |-> "H", value |-> King]}) ELSE 0)
  + (IF asks(6) /\ n \in BonusTricks THEN 10 ELSE 0)

(* The points of a deal for each seat, from the cards and the winners of   *)
(* its tricks.                                                             *)
CalculatePoints(type, cards, winners) ==
  [s \in Seat |-> FoldSet(LAMBDA n, sum : sum + Cost(type, cards[n], n), 0,
                          {n \in 1 .. Tricks : winners[n] = s})]

(* The place in a hand of the card the automatic player puts down: the     *)
(* first of the suit that was led or, with none, of the least suit.        *)
SelectCard(hand, table) ==
  LET has(s) == {i \in DOMAIN hand : hand[i].suit = s}
      suits == {k \in DOMAIN Suits : has(Suits[k]) # {}}
      suit == IF table # <<>> /\ has(table[1].suit) # {} THEN table[1].suit
              ELSE Suits[CHOOSE k \in suits : \A l \in suits : k <= l]
  IN CHOOSE i \in has(suit) : \A k \in has(suit) : i <= k
=============================================================================
