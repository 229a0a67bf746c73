------------------------------ MODULE BotSearch ------------------------------
(***************************************************************************)
(* How the bot chooses a word: server/internal/bot.  Choose is pure, over  *)
(* a board frozen before the worker starts (freezeBoard), so each strategy *)
(* is an operator of the position, and what its random source may return   *)
(* is a set.  Hard searches some plies ahead with alpha-beta pruning; it   *)
(* is compared here with plain minimax, written without any pruning.       *)
(*                                                                         *)
(* A word is the pair of the syllables it links.  A leaf's mobility is its *)
(* count of replies: the code takes log(1 + count), which orders leaves    *)
(* the same way.                                                           *)
(***************************************************************************)
EXTENDS Integers, SequencesExt

CONSTANTS
    WordOrder,   \* every word a dictionary may hold, in the store's order
    MaxPlayed,   \* bound: words already played in a position
    searchDepth, \* 4
    branchCap,   \* 12
    nodeCap      \* 20000

Word == ToSet(WordOrder)

\* As a loss is worth no less than loseScore to the loop that looks for the best reply, one
\* found five plies down or more could no longer be told from one found later; and a leaf
\* has to be worth less than a win, which the code's logarithm always is.
ASSUME SearchLimits ==
    /\ WordOrder \in Seq(Word)
    /\ searchDepth \in 1 .. 4
    /\ branchCap \in 1 .. 999
    /\ nodeCap \in Nat \ {0}

VARIABLES
    board,   \* the position: [words, current, spent]
    picks,   \* what each strategy may answer, once it has chosen
    phase    \* "asked" or "answered"; "idle" when there is no position

botVars == <<board, picks, phase>>

first(w) == w[1]
last(w) == w[2]
Syllable == {first(w) : w \in Word} \cup {last(w) : w \in Word}

\* A dictionary, the syllable in play, and the words played, in the game or in the search.
Position == [words : SUBSET Word, current : Syllable, spent : SUBSET Word]

after(p, w) == [p EXCEPT !.current = last(w), !.spent = @ \cup {w}]

wordsStartingWith(words, s) == {w \in words : first(w) = s}

\* The words still to be played from the syllable in play.
replies(p) == wordsStartingWith(p.words, p.current) \ p.spent

legalMoves(b) == replies(b)

\* remainingOutDegree: the replies a move leaves, the move itself spent.
handsOver(p, w) == Cardinality(replies(after(p, w)))

\* SortStableFunc by handsOver: tightest first, ties in the order they came.
place(w) == CHOOSE i \in DOMAIN WordOrder : WordOrder[i] = w

comesBefore(p, v, w) ==
    \/ handsOver(p, v) < handsOver(p, w)
    \/ (handsOver(p, v) = handsOver(p, w) /\ place(v) < place(w))

tightestFirst(p, moves) ==
    LET ahead(w) == {v \in moves : comesBefore(p, v, w)}
    IN  [k \in 1 .. Cardinality(moves) |-> CHOOSE w \in moves : Cardinality(ahead(w)) = k - 1]

\* The first k of a sequence, or all of it.
atMost(s, k) == SubSeq(s, 1, IF Len(s) < k THEN Len(s) ELSE k)

-----------------------------------------------------------------------------
(* Hard's search.  The budget of nodes runs through the whole search.       *)

loseScore == -1000
Inf == 1000000
larger(x, y) == IF x > y THEN x ELSE y

\* Mutant of mobility, the sign backwards: a leaf is good for whoever has few replies there.
mobilityBackwards(n) == -n

mobility(n) == n

\* What a search is asked: a position, the window, the budget.
Query == [at : Position, alpha : Int, beta : Int, budget : Int]

\* One candidate of the loop of negamax, `below` being the search of the plies below; the
\* loop is cut when the opponent would avoid the line.
candidate(q, below, loop, w) ==
    IF loop.cut THEN loop
    ELSE LET r == below[[at |-> after(q.at, w), alpha |-> -q.beta, beta |-> -loop.alpha,
                         budget |-> loop.budget]]
             best == larger(loop.best, -r.score)
             alpha == larger(loop.alpha, best)
         IN  [best |-> best, alpha |-> alpha, budget |-> r.budget, cut |-> alpha >= q.beta]

explore(q, below) ==
    LET ordered == atMost(tightestFirst(q.at, replies(q.at)), branchCap)
        start == [best |-> loseScore, alpha |-> q.alpha, budget |-> q.budget - 1, cut |-> FALSE]
        done == FoldLeft(LAMBDA loop, w : candidate(q, below, loop, w), start, ordered)
    IN  [score |-> done.best, budget |-> done.budget]

\* The value of a position for the player to move there, and the budget left.
negamax[depth \in Nat] ==
    [q \in Query |->
        IF q.budget <= 0 THEN [score |-> q.alpha, budget |-> q.budget]
        ELSE IF replies(q.at) = {} THEN [score |-> loseScore - depth, budget |-> q.budget - 1]
        ELSE IF depth = 0 THEN [score |-> mobility(Cardinality(replies(q.at))),
                                budget |-> q.budget - 1]
        ELSE explore(q, negamax[depth - 1])]

\* The loop of Choose over the scored moves: the first move that improves on
\* all before it, or the tightest one if the budget allowed no comparison.
rootMove(b, loop, w) ==
    IF loop.budget <= 0 THEN loop
    ELSE LET r == negamax[searchDepth - 1][[at |-> after(b, w), alpha |-> -Inf,
                                            beta |-> -loop.alpha, budget |-> loop.budget]]
         IN  IF -r.score > loop.alpha
             THEN [alpha |-> -r.score, best |-> w, budget |-> r.budget]
             ELSE [loop EXCEPT !.budget = r.budget]

searched(b, moves) ==
    LET ordered == tightestFirst(b, moves)
        start == [alpha |-> -Inf, best |-> ordered[1], budget |-> nodeCap]
    IN  FoldLeft(LAMBDA loop, w : rootMove(b, loop, w), start, atMost(ordered, branchCap))

kills(b) == {w \in legalMoves(b) : handsOver(b, w) = 0}
spared(b) == legalMoves(b) \ kills(b)

\* What is left to search once a kill has been declined, or there is none.
declined(b) == IF spared(b) = {} THEN legalMoves(b) ELSE spared(b)

-----------------------------------------------------------------------------
(* The three strategies: the set of words each may answer; none is ErrNoMove. *)

easy(b) == legalMoves(b)

medium(b) ==
    LET scored == tightestFirst(b, legalMoves(b))
    IN  IF legalMoves(b) = {} THEN {}
        ELSE IF handsOver(b, scored[1]) = 0 THEN {scored[1]}
        ELSE ToSet(atMost(scored, larger(Len(scored) \div 4, 1)))

hard(b) ==
    IF legalMoves(b) = {} THEN {}
    ELSE kills(b) \cup {searched(b, declined(b)).best}

BotInit ==
    /\ \E words \in SUBSET Word :
         \E played \in {p \in SUBSET words : Cardinality(p) <= MaxPlayed}, w \in words :
            board = [words |-> words, current |-> first(w), spent |-> played]
    /\ picks = <<>> /\ phase = "asked"

\* No position: another part of the program is being run.
BotIdle == board = <<>> /\ picks = <<>> /\ phase = "idle"

choose ==
    /\ phase = "asked" /\ phase' = "answered"
    /\ picks' = [easy |-> easy(board), medium |-> medium(board), hard |-> hard(board)]
    /\ UNCHANGED board

BotSpec == BotInit /\ [][choose]_botVars

-----------------------------------------------------------------------------
(* The reference: minimax over the same depth, no pruning, no budget.       *)

minimax[depth \in Nat] ==
    [p \in Position |->
        IF replies(p) = {} THEN -1000 - depth
        ELSE IF depth = 0 THEN Cardinality(replies(p))
        ELSE Max({-minimax[depth - 1][after(p, w)] : w \in replies(p)})]

worth(b, w) == -minimax[searchDepth - 1][after(b, w)]
isBest(b, w, moves) == \A x \in moves : worth(b, w) >= worth(b, x)

\* The caps cut nothing: no syllable starts more words than are looked at, and the
\* search has ended with nodes to spare.
uncapped(b) ==
    /\ \A s \in Syllable : Cardinality(wordsStartingWith(b.words, s)) <= branchCap
    /\ searched(b, declined(b)).budget > 0

\* Every strategy answers a word that is legal on the board it was given, and
\* answers one whenever there is one.  Medium takes an instant win when it sees
\* one.  Hard either takes one or, if the caps cut nothing, plays a word no other
\* (with the kills off the table, once declined) beats at that many plies: ordering,
\* pruning and the floor of its search never cost it the better word.
BotsChooseWell ==
    phase = "answered" =>
        LET moves == legalMoves(board)
        IN  /\ \A d \in DOMAIN picks : /\ picks[d] \subseteq moves
                                      /\ picks[d] = {} <=> moves = {}
            /\ kills(board) # {} => picks.medium \subseteq kills(board)
            /\ \A w \in picks.hard :
                  uncapped(board) => w \in kills(board) \/ isBest(board, w, declined(board))
=============================================================================
