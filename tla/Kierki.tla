------------------------------- MODULE Kierki -------------------------------
(***************************************************************************)
(* The Kierki server and its automatic clients: a thread for each seat     *)
(* that serves one client after another, the semaphores that pass the turn *)
(* and the barriers the four threads meet at, the places at which a thread *)
(* notices that its client is gone, and the newcomers that take a seat     *)
(* left free.  A client reads its messages in order and without deciding   *)
(* anything, so it is moved on when they are sent; what it sends back      *)
(* takes its time.  A game is followed to its end or until, after a loss at*)
(* one of two places, it is not the game any more (OffCourse).             *)
(***************************************************************************)
EXTENDS Hearts

CONSTANTS
  Deals,     \* the game file: a sequence of [type, lead, cards], cards a sequence for each seat
  MaxLost    \* bound: clients lost in a game

ASSUME KierkiAssumption ==
  /\ \A d \in DOMAIN Deals : /\ Deals[d].type \in 1 .. 7 /\ Deals[d].lead \in Seat
                             /\ \A s \in Seat : Deals[d].cards[s] \in Seq(Card)
                                                /\ Len(Deals[d].cards[s]) = Tricks
  /\ MaxLost \in Nat

VARIABLES
  pc,            \* where the thread of each seat is; "none" when there is none
  at,            \* the deal and the trick each thread is in: [deal, trick]
  game_states,   \* for each seat: [seat, deal, trick, flags]
  leaving,       \* the message at which a thread lost its client, until it has returned
  places,        \* the places of client_sockets that hold a socket
  sem,           \* player_semaphores
  current_turn,
  tricks,        \* the cards of each trick of each deal and who put them down
  winners,
  scores,
  scored,        \* how often the points of each deal were added
  stopped,       \* the word "stop" is in the pipe
  client,        \* for each seat: [state, trick, hand, table]
  up,            \* the card each client has sent and the server has not read
  lost,          \* clients lost so far
  \* history:
  extra,         \* turns given by threads that had passed theirs on (l.545)
  replayed,      \* a thread began before its predecessor had said where it stopped (l.543, l.575)
  unsure         \* the deals and seats in which a client may not know its own cards
server == <<at, game_states, leaving, places, sem, current_turn, tricks, winners, scores, scored, stopped>>
history == <<extra, replayed, unsure>>
vars == <<pc, server, client, up, lost, history>>

Lead(d) == Deals[d].lead
LastSeat(d) == After(Lead(d), 3)
LastDeal == Len(Deals)
NoClient == [state |-> "off", trick |-> 0, hand |-> <<>>, table |-> <<>>]
NewClient == [NoClient EXCEPT !.state = "deal"]

-----------------------------------------------------------------------------
(* The client.  It takes the message it waits for and ignores any other.   *)

Deal(d, s) == [type |-> "DEAL", cards |-> Deals[d].cards[s], trick |-> 0]
Trick(d, n) == [type |-> "TRICK", cards |-> tricks[d][n].cards, trick |-> n]
Taken(d, n) == [type |-> "TAKEN", cards |-> tricks[d][n].cards, trick |-> n]
Score == [type |-> "SCORE", cards |-> <<>>, trick |-> 0]
Total == [type |-> "TOTAL", cards |-> <<>>, trick |-> 0]

OfTrick(m, type, c) == m.type = type /\ m.trick = c.trick

ReceiveDeal(c, m) ==
  IF m.type = "DEAL" THEN [c EXCEPT !.state = "first", !.trick = 1, !.hand = @ \o m.cards] ELSE c

(* The first trick that a client is asked about may come after others that *)
(* were taken.  Their cards are in the order in which they were played, and*)
(* the client takes the one at its own position for its own.               *)
Without_keeps(hand, card) == hand

Without(hand, card) == SelectSeq(hand, LAMBDA c : c # card)

ReceiveTakenOrTrick(c, m, s) ==
  IF OfTrick(m, "TAKEN", c) /\ Len(m.cards) = 4
    THEN [c EXCEPT !.trick = @ + 1, !.hand = Without(@, m.cards[s + 1])]
  ELSE IF OfTrick(m, "TRICK", c) /\ Len(m.cards) <= 3
    THEN [c EXCEPT !.state = "asked", !.table = IF m.cards = <<>> THEN @ ELSE m.cards]
  ELSE c

ReceiveTrick(c, m) ==
  IF OfTrick(m, "TRICK", c) /\ Len(m.cards) <= 3 THEN [c EXCEPT !.state = "asked", !.table = m.cards] ELSE c

ReceiveTaken(c, m) ==
  IF OfTrick(m, "TAKEN", c) /\ Len(m.cards) = 4
    THEN IF c.trick < Tricks THEN [c EXCEPT !.state = "trick", !.trick = @ + 1] ELSE [c EXCEPT !.state = "score"]
  ELSE c

ReceiveScore(c, m) == IF m.type = "SCORE" THEN [c EXCEPT !.state = "total"] ELSE c
ReceiveTotal(c, m) == IF m.type = "TOTAL" THEN [c EXCEPT !.state = "deal"] ELSE c

Receive(c, m, s) == CASE c.state = "deal" -> ReceiveDeal(c, m)
                      [] c.state = "first" -> ReceiveTakenOrTrick(c, m, s)
                      [] c.state = "trick" -> ReceiveTrick(c, m)
                      [] c.state = "taken" -> ReceiveTaken(c, m)
                      [] c.state = "score" -> ReceiveScore(c, m)
                      [] c.state = "total" -> ReceiveTotal(c, m)
                      [] c.state \in {"asked", "off"} -> c

(* A client that is gone gets nothing: the message is lost without a trace *)
(* or, where the server can notice it, its sending fails.                  *)
Send(s, messages) ==
  client' = [client EXCEPT ![s] = FoldLeft(LAMBDA c, m : Receive(c, m, s), @, messages)]
MayFail(s) == client[s].state = "off"

ClientAnswers(s) ==
  LET c == client[s]
      i == SelectCard(c.hand, c.table)
  IN /\ c.state = "asked"
     /\ up' = [up EXCEPT ![s] = <<c.hand[i]>>]
     /\ client' = [client EXCEPT ![s].state = "taken", ![s].hand = RemoveAt(@, i)]
     /\ UNCHANGED <<pc, server, lost, history>>

LoseClient(s) ==
  /\ client[s].state # "off" /\ ~stopped /\ lost < MaxLost
  /\ client' = [client EXCEPT ![s] = NoClient]
  /\ lost' = lost + 1
  /\ UNCHANGED <<pc, server, up, history>>

-----------------------------------------------------------------------------
(* The threads.                                                            *)

Init == /\ pc = [s \in Seat |-> "none"]
        /\ at = [s \in Seat |-> [deal |-> 1, trick |-> 1]]
        /\ game_states = [s \in Seat |-> [seat |-> FALSE, deal |-> 1, trick |-> 1, flags |-> {}]]
        /\ leaving = [s \in Seat |-> <<>>]
        /\ places = {}
        /\ sem = [s \in Seat |-> 0]
        /\ current_turn = 0
        /\ tricks = [d \in DOMAIN Deals |-> [n \in 1 .. Tricks |-> [cards |-> <<>>, by |-> <<>>]]]
        /\ winners = [d \in DOMAIN Deals |-> [n \in 1 .. Tricks |-> -1]]
        /\ scores = [s \in Seat |-> 0]
        /\ scored = [d \in DOMAIN Deals |-> 0]
        /\ stopped = FALSE
        /\ client = [s \in Seat |-> NoClient]
        /\ up = [s \in Seat |-> <<>>]
        /\ lost = 0
        /\ extra = 0 /\ replayed = FALSE /\ unsure = {}

Goto(s, l) == pc' = [pc EXCEPT ![s] = l]
From(s, l) == pc[s] = l

(* A client says IAM and takes a free seat.  Its socket goes into the first*)
(* free place; where there is none the socket is forgotten and the seat    *)
(* stays taken.                                                            *)
Accept(s) ==
  /\ ~stopped /\ ~game_states[s].seat
  /\ game_states' = [game_states EXCEPT ![s].seat = TRUE]
  /\ client' = [client EXCEPT ![s] = NewClient]
  /\ up' = [up EXCEPT ![s] = <<>>]
  /\ \/ places = Seat /\ UNCHANGED <<places, pc>>
     \/ \E p \in Seat \ places : /\ \A q \in Seat \ places : p <= q
                                /\ places' = places \cup {p}
                                /\ Goto(s, "start")
  /\ UNCHANGED <<at, leaving, sem, current_turn, tricks, winners, scores, scored, stopped, lost, history>>

(* A thread that lost its client frees the seat, and what it still does    *)
(* after that a newcomer may not wait for.                                 *)
Leave_forgetsTrick(s, type) ==
  /\ leaving[s] = <<>>
  /\ leaving' = [leaving EXCEPT ![s] = <<type, at[s].deal, at[s].trick>>]
  /\ game_states' = [game_states EXCEPT ![s].seat = FALSE, ![s].flags = @ \cup {type},
                       ![s].deal = IF type \in {"DEAL", "TRICK"} THEN at[s].deal ELSE @]
  /\ Goto(s, "none")
  /\ UNCHANGED <<at, places, sem, current_turn, tricks, winners, scores, scored, stopped, client, up, lost, history>>

Leave(s, type) ==
  /\ leaving[s] = <<>>
  /\ leaving' = [leaving EXCEPT ![s] = <<type, at[s].deal, at[s].trick>>]
  /\ game_states' = [game_states EXCEPT ![s].seat = FALSE, ![s].flags = @ \cup {type},
                       ![s].deal = IF type \in {"DEAL", "TRICK"} THEN at[s].deal ELSE @,
                       ![s].trick = IF type = "TRICK" THEN at[s].trick ELSE @]
  /\ Goto(s, "none")
  /\ UNCHANGED <<at, places, sem, current_turn, tricks, winners, scores, scored, stopped, client, up, lost, history>>

Returns_keepsTurn(s) ==
  /\ leaving[s] # <<>>
  /\ leaving' = [leaving EXCEPT ![s] = <<>>]
  /\ LET type == leaving[s][1]
         deal == leaving[s][2]
         trick == leaving[s][3]
     IN /\ game_states' = [game_states EXCEPT
                             ![s].deal = IF type = "SCORE" THEN deal + 1 ELSE IF type = "TAKEN" THEN deal ELSE @,
                             ![s].trick = IF type = "TAKEN" THEN trick + 1 ELSE @]
        /\ sem' = IF type = "TAKEN" THEN [sem EXCEPT ![s] = @ + 1] ELSE sem
  /\ extra' = IF leaving[s][1] = "TAKEN" THEN extra + 1 ELSE extra
  /\ places' = places \ {s}
  /\ UNCHANGED <<pc, at, current_turn, tricks, winners, scores, scored, stopped, client, up, lost, replayed, unsure>>

Returns(s) ==
  /\ leaving[s] # <<>>
  /\ leaving' = [leaving EXCEPT ![s] = <<>>]
  /\ LET type == leaving[s][1]
         deal == leaving[s][2]
         trick == leaving[s][3]
     IN /\ game_states' = [game_states EXCEPT
                             ![s].deal = IF type = "SCORE" THEN deal + 1 ELSE IF type = "TAKEN" THEN deal ELSE @,
                             ![s].trick = IF type = "TAKEN" THEN trick + 1 ELSE @]
        /\ sem' = IF type \in {"TRICK", "TAKEN"} THEN [sem EXCEPT ![s] = @ + 1] ELSE sem
  /\ extra' = IF leaving[s][1] = "TAKEN" THEN extra + 1 ELSE extra
  /\ places' = places \ {s}
  /\ UNCHANGED <<pc, at, current_turn, tricks, winners, scores, scored, stopped, client, up, lost, replayed, unsure>>

(* What a client that comes in the middle of a deal is told first.         *)
CatchUp_backwards(s, d, n) == <<Deal(d, s)>> \o [k \in 1 .. n - 1 |-> Taken(d, n - k)]

CatchUp(s, d, n) == <<Deal(d, s)>> \o [k \in 1 .. n - 1 |-> Taken(d, k)]

(* The cards of a trick are told in the order in which they were played; a *)
(* newcomer takes the one at its own position for its own (Without), which *)
(* it is if N leads.  What it does not take out it may still have at the   *)
(* next deal.                                                              *)
Misleads(d, n) == n > 1 /\ Lead(d) # 0

(* A thread begins where its predecessor stopped: what the predecessor has *)
(* stored of that by now.                                                  *)
Start(s) ==
  /\ From(s, "start")
  /\ LET g == game_states[s]
         late == g.flags \cap {"SCORE", "TRICK"} # {}
     IN /\ at' = [at EXCEPT ![s] = [deal |-> g.deal, trick |-> g.trick]]
        /\ Send(s, IF late THEN CatchUp(s, g.deal, g.trick) ELSE <<>>)
        /\ unsure' = IF late /\ Misleads(g.deal, g.trick) THEN unsure \cup {<<g.deal, s>>} ELSE unsure
        /\ game_states' = [game_states EXCEPT ![s].flags = @ \ {"SCORE", "TRICK"}]
        /\ Goto(s, IF "TAKEN" \in g.flags THEN "trick_start"
                   ELSE IF "TRICK" \in g.flags THEN "turn"
                   ELSE IF "DEAL" \in g.flags THEN "deal" ELSE "deal_start")
  /\ replayed' = (replayed \/ (leaving[s] # <<>> /\ leaving[s][1] \in {"TAKEN", "SCORE"}))
  /\ UNCHANGED <<leaving, places, sem, current_turn, tricks, winners, scores, scored, stopped, up, lost, extra>>

(* A barrier lets the four threads go when all of them have come to it.    *)
DealStart ==
  /\ \A s \in Seat : From(s, "deal_start")
  /\ pc' = [s \in Seat |-> "deal"]
  /\ UNCHANGED <<server, client, up, lost, history>>

(* Every thread sets the turn; only the one that leads takes it up.        *)
DealHandler(s) ==
  /\ From(s, "deal")
  /\ current_turn' = Lead(at[s].deal)
  /\ sem' = IF s = current_turn' THEN [sem EXCEPT ![s] = @ + 1] ELSE sem
  /\ game_states' = [game_states EXCEPT ![s].flags = @ \ {"DEAL"}]
  /\ Send(s, <<Deal(at[s].deal, s)>>)
  /\ unsure' = IF client[s].state = "deal" /\ client[s].hand # <<>>
                THEN unsure \cup {<<at[s].deal, s>>} ELSE unsure
  /\ Goto(s, "trick_start")
  /\ UNCHANGED <<at, leaving, places, tricks, winners, scores, scored, stopped, up, lost, extra, replayed>>

(* A thread whose predecessor lost its client at TAKEN tells the newcomer  *)
(* of the deal when the next trick begins.                                 *)
TrickStart ==
  /\ \A s \in Seat : From(s, "trick_start")
  /\ pc' = [s \in Seat |-> "turn"]
  /\ client' = [s \in Seat |->
       IF "TAKEN" \notin game_states[s].flags THEN client[s]
       ELSE FoldLeft(LAMBDA c, m : Receive(c, m, s), client[s], CatchUp(s, at[s].deal, game_states[s].trick))]
  /\ game_states' = [s \in Seat |-> [game_states[s] EXCEPT !.flags = @ \ {"TAKEN"}]]
  /\ unsure' = unsure \cup {<<at[s].deal, s>> : s \in {s \in Seat :
       "TAKEN" \in game_states[s].flags /\ Misleads(at[s].deal, game_states[s].trick)}}
  /\ UNCHANGED <<at, leaving, places, sem, current_turn, tricks, winners, scores, scored, stopped, up, lost, extra, replayed>>

WaitForTurn(s) ==
  /\ From(s, "turn") /\ sem[s] > 0
  /\ sem' = [sem EXCEPT ![s] = @ - 1]
  /\ Goto(s, "ask")
  /\ UNCHANGED <<at, game_states, leaving, places, current_turn, tricks, winners, scores, scored,
                 stopped, client, up, lost, history>>

AsksCard(s) ==
  /\ From(s, "ask")
  /\ Send(s, <<Trick(at[s].deal, at[s].trick)>>)
  /\ Goto(s, "answer")
  /\ UNCHANGED <<server, up, lost, history>>

(* Nothing came in time: the client is asked again.                        *)
Timeout(s) ==
  /\ From(s, "answer") /\ up[s] = <<>> /\ client[s].state # "off"
  /\ Goto(s, "ask")
  /\ UNCHANGED <<server, client, up, lost, history>>

ReadsCard(s) ==
  LET d == at[s].deal
      n == at[s].trick
      cards == Append(tricks[d][n].cards, up[s][1])
  IN /\ From(s, "answer") /\ up[s] # <<>>
     /\ up' = [up EXCEPT ![s] = <<>>]
     /\ tricks' = [tricks EXCEPT ![d][n] = [cards |-> cards, by |-> Append(@.by, s)]]
     /\ winners' = IF current_turn = LastSeat(d) THEN [winners EXCEPT ![d][n] = Winner(cards, Lead(d))] ELSE winners
     /\ current_turn' = After(current_turn, 1)
     /\ sem' = [sem EXCEPT ![current_turn'] = @ + 1]
     /\ Goto(s, "trick_end")
     /\ UNCHANGED <<at, game_states, leaving, places, scores, scored, stopped, client, lost, history>>

TrickEnd ==
  /\ \A s \in Seat : From(s, "trick_end")
  /\ pc' = [s \in Seat |-> "taken"]
  /\ UNCHANGED <<server, client, up, lost, history>>

(* A client lost at the last TAKEN of a deal is not noticed.               *)
SendsTaken(s) ==
  LET n == at[s].trick IN
  /\ From(s, "taken")
  /\ Send(s, <<Taken(at[s].deal, n)>>)
  /\ \/ n < Tricks /\ at' = [at EXCEPT ![s].trick = n + 1] /\ Goto(s, "trick_start")
     \/ n = Tricks /\ UNCHANGED at /\ Goto(s, "points")
  /\ UNCHANGED <<game_states, leaving, places, sem, current_turn, tricks, winners, scores, scored,
                 stopped, up, lost, history>>

(* After the last trick the last seat adds the points up, and the seat     *)
(* that would lead takes back the turn that was passed to it.              *)
EndsDeal_everySeat(s) ==
  LET d == at[s].deal
      cards == [n \in 1 .. Tricks |-> tricks[d][n].cards]
      points == CalculatePoints(Deals[d].type, cards, winners[d])
  IN /\ From(s, "points")
     /\ \/ s # current_turn /\ UNCHANGED sem
        \/ s = current_turn /\ sem[s] > 0 /\ sem' = [sem EXCEPT ![s] = @ - 1]
     /\ scores' = [t \in Seat |-> scores[t] + points[t]]
     /\ scored' = [scored EXCEPT ![d] = @ + 1]
     /\ game_states' = [game_states EXCEPT ![s].trick = 1]
     /\ at' = [at EXCEPT ![s].trick = 1]
     /\ Goto(s, "deal_end")
     /\ UNCHANGED <<leaving, places, current_turn, tricks, winners, stopped, client, up, lost, history>>

EndsDeal(s) ==
  LET d == at[s].deal
      cards == [n \in 1 .. Tricks |-> tricks[d][n].cards]
      points == CalculatePoints(Deals[d].type, cards, winners[d])
  IN /\ From(s, "points")
     /\ \/ s # current_turn /\ UNCHANGED sem
        \/ s = current_turn /\ sem[s] > 0 /\ sem' = [sem EXCEPT ![s] = @ - 1]
     /\ \/ s # LastSeat(d) /\ UNCHANGED <<scores, scored>>
        \/ /\ s = LastSeat(d)
           /\ scores' = [t \in Seat |-> scores[t] + points[t]]
           /\ scored' = [scored EXCEPT ![d] = @ + 1]
     /\ game_states' = [game_states EXCEPT ![s].trick = 1]
     /\ at' = [at EXCEPT ![s].trick = 1]
     /\ Goto(s, "deal_end")
     /\ UNCHANGED <<leaving, places, current_turn, tricks, winners, stopped, client, up, lost, history>>

(* One barrier for the end of a deal and the end of the game, where the    *)
(* seat that has the turn ends the server.                                 *)
DealEnd ==
  /\ \A s \in Seat : pc[s] \in {"deal_end", "final"}
  /\ pc' = [s \in Seat |-> IF pc[s] = "final" THEN "over" ELSE "score"]
  /\ stopped' = (stopped \/ From(current_turn, "final"))
  /\ UNCHANGED <<at, game_states, leaving, places, sem, current_turn, tricks, winners, scores, scored,
                 client, up, lost, history>>

(* A client lost at the last SCORE of the game is not noticed.             *)
SendsScore(s) ==
  /\ From(s, "score")
  /\ Send(s, <<Score, Total>>)
  /\ \/ at[s].deal < LastDeal /\ at' = [at EXCEPT ![s].deal = @ + 1] /\ Goto(s, "deal_start")
     \/ at[s].deal = LastDeal /\ UNCHANGED at /\ Goto(s, "final")
  /\ UNCHANGED <<game_states, leaving, places, sem, current_turn, tricks, winners, scores, scored,
                 stopped, up, lost, history>>

(* Where a thread finds that its client is gone, and at which message.     *)
Finds(s, type) ==
  CASE type = "DEAL" -> From(s, "deal")
    [] type = "TRICK" -> From(s, "ask") \/ (From(s, "answer") /\ up[s] = <<>>)
    [] type = "TAKEN" -> From(s, "taken") /\ at[s].trick < Tricks
    [] type = "SCORE" -> From(s, "score") /\ at[s].deal < LastDeal

NoticesLoss(s) == \E type \in {"DEAL", "TRICK", "TAKEN", "SCORE"} : MayFail(s) /\ Finds(s, type) /\ Leave(s, type)

Thread(s) == \/ Start(s) \/ DealHandler(s) \/ WaitForTurn(s) \/ ReadsCard(s) \/ SendsTaken(s)
             \/ EndsDeal(s) \/ SendsScore(s) \/ NoticesLoss(s) \/ Returns(s)
Barrier == DealStart \/ TrickStart \/ TrickEnd \/ DealEnd

(* Where what the code does is not followed any further: a seat is asked    *)
(* out of its turn, and may put its card down beside or before another one *)
(* (current_turn and the cards of a trick have no lock); or a thread has   *)
(* begun where nobody stopped, and plays tricks that were played already.  *)
OutOfTurn == \E s \in Seat : pc[s] \in {"ask", "answer"} /\ s # current_turn
OffCourse == replayed \/ OutOfTurn

Serve == ~OffCourse /\ (Barrier \/ \E s \in Seat : Thread(s))
Ask == ~OffCourse /\ \E s \in Seat : AsksCard(s)
Answer == ~OffCourse /\ \E s \in Seat : ClientAnswers(s)
Come == ~OffCourse /\ \E s \in Seat : Accept(s)

Next == \/ Serve \/ Ask \/ Answer \/ Come
        \/ ~OffCourse /\ \E s \in Seat : Timeout(s) \/ LoseClient(s)

Spec == Init /\ [][Next]_vars

(* The system schedules the threads, a client answers and somebody comes   *)
(* for a free seat.                                                        *)
Fairness == WF_vars(Serve) /\ WF_vars(Ask) /\ WF_vars(Answer) /\ WF_vars(Come)
FairSpec == Spec /\ Fairness

-----------------------------------------------------------------------------
Count(S) == Cardinality(S)
SumOf(f(_), S) == FoldSet(LAMBDA x, total : f(x) + total, 0, S)

Playing == {"turn", "ask", "answer", "trick_end"}
Holds(s) == pc[s] \in {"ask", "answer"} \/ (leaving[s] # <<>> /\ leaving[s][1] = "TRICK")

(* The turn is one token: it is in a semaphore, or with the thread that     *)
(* took it, or with one that lost its client and will give it back         *)
(* (wait_for_turn, pass_turn, l.531).  There is one more for each thread   *)
(* that lost its client at TAKEN, and for nothing else: it has passed its  *)
(* turn on and releases its own seat all the same (l.545).  Without that   *)
(* nobody is asked out of turn.                                            *)
OneTurn ==
  ~replayed =>
    /\ SumOf(LAMBDA s : sem[s], Seat) + Count({s \in Seat : Holds(s)}) <= 1 + extra
    /\ OutOfTurn => extra > 0

(* The cards of a trick come from the seats in their order, from the one   *)
(* that leads; the threads are in the same trick, and none has a card      *)
(* before the one before it is complete (the barriers and current_turn).   *)
TricksInOrder ==
  /\ \A d \in DOMAIN Deals, n \in 1 .. Tricks :
       LET by == tricks[d][n].by IN
       /\ Len(by) <= 4 /\ \A k \in DOMAIN by : by[k] = After(Lead(d), k - 1)
       /\ by # <<>> /\ n > 1 => Len(tricks[d][n - 1].by) = 4
       /\ by # <<>> /\ n = 1 /\ d > 1 => Len(tricks[d - 1][Tricks].by) = 4
       /\ (winners[d][n] # -1) = (Len(by) = 4)
  /\ ~replayed => \A s, t \in Seat : pc[s] \in Playing /\ pc[t] \in Playing => at[s] = at[t]

(* One turn at a time but for the extra ones, and as long as they are not   *)
(* used before their time the tricks are taken in the order of the seats.   *)
InTurn == OneTurn /\ TricksInOrder

(* The automatic players put down the cards they were dealt, each once, and*)
(* follow suit while they can, whoever was lost and replaced: but for a    *)
(* seat whose client came in the middle of a deal that N does not lead     *)
(* (mess_handler.cpp:630), in that deal and, with the cards it still has   *)
(* from it, in the next ones.                                              *)
Plays(d, s) == {<<n, k>> \in (1 .. Tricks) \X (1 .. 4) : k \in DOMAIN tricks[d][n].by /\ tricks[d][n].by[k] = s}
Put(d, p) == tricks[d][p[1]].cards[p[2]]

PlaysByTheRules ==
  \A d \in DOMAIN Deals, s \in Seat : <<d, s>> \notin unsure =>
    /\ \A p \in Plays(d, s) : Put(d, p) \in ToSet(Deals[d].cards[s])
    /\ \A p, q \in Plays(d, s) : p # q => Put(d, p) # Put(d, q)
    /\ \A p, q \in Plays(d, s) :
         LET led == tricks[d][p[1]].cards[1].suit IN
         p[1] < q[1] /\ Put(d, p).suit # led => Put(d, q).suit # led

(* The points of a deal are added once, whatever was lost on the way       *)
(* (calculate_points by the thread of the last seat alone, between two     *)
(* barriers), and all the cards and tricks of the deal are in them if the  *)
(* cards put down were those dealt.                                        *)
Dealt(d) == FoldLeft(LAMBDA cs, s : cs \o Deals[d].cards[s], <<>>, <<0, 1, 2, 3>>)
Worth(d) == SumOf(LAMBDA n : Cost(Deals[d].type, IF n = 1 THEN Dealt(d) ELSE <<>>, n), 1 .. Tricks)

ScoredOnce ==
  /\ \A d \in DOMAIN Deals : scored[d] <= 1 /\ (stopped => scored[d] = 1)
  /\ \A s \in Seat : pc[s] = "score" => scored[at[s].deal] = 1
  /\ (\A p \in unsure : scored[p[1]] = 0) =>
       SumOf(LAMBDA s : scores[s], Seat) = SumOf(LAMBDA d : scored[d] * Worth(d), DOMAIN Deals)

(* Server and client agree on what comes next: a client that is asked for  *)
(* a card, for the first or the third time, has it or is about to send it, *)
(* and the end of the game finds all of them waiting for another deal.     *)
InStep ==
  /\ \A s \in Seat : pc[s] = "answer" /\ client[s].state # "off" =>
       /\ client[s].trick = at[s].trick
       /\ client[s].state = IF up[s] = <<>> THEN "asked" ELSE "taken"
  /\ stopped => \A s \in Seat : client[s].state \in {"deal", "off"}

(* A seat whose newcomer found no place for its socket.                    *)
Stranded(s) == game_states[s].seat /\ pc[s] = "none" /\ leaving[s] = <<>>

(* Every game comes to its end, unless a newcomer was stranded or it went  *)
(* off its course on the way.                                              *)
Completes == <>(stopped \/ OffCourse \/ \E s \in Seat : Stranded(s))

=============================================================================
