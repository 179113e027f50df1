------------------------------ MODULE KthElement ------------------------------
(***************************************************************************)
(* The k-th smallest of the numbers that several servers hold, found by    *)
(* bisection (example/kth_element): a KthClient that asks all servers for  *)
(* the counts of numbers below and at its guess, and KthServers that count *)
(* each query on several worker threads while the I/O loop waits for them. *)
(*                                                                         *)
(* The connections and the rule that ends the client are Fleet's.  A       *)
(* message is the record that Codec prints as a line and parses again; the *)
(* sum of the numbers, which is only logged, is left out.                  *)
(*                                                                         *)
(* A definition whose name ends in _Fault is the definition before which   *)
(* it stands with a plausible mistake; no specification uses it.           *)
(***************************************************************************)
EXTENDS Fleet, Integers

CONSTANTS Worker,     \* the worker threads of a server
          AllNumbers, \* what the servers may hold: [Peer -> [Worker -> Seq(Int)]]
          Kths,       \* what the client may be constructed with
          IntMin, IntMax,  \* INT64_MIN and INT64_MAX
          None        \* "no guess"

\* A server holds at least one number (KthServer.cc:31).
ASSUME KthAssumption ==
  /\ IsFiniteSet(Worker)
  /\ IntMin \in Int /\ IntMax \in Int /\ None \notin Int
  /\ Kths \subseteq Int
  /\ AllNumbers \subseteq [Peer -> [Worker -> Seq(Int)]]
  /\ \A held \in AllNumbers : \A p \in Peer : \E w \in Worker : held[p][w] # <<>>

VARIABLES
  numbers,  \* numbers_ of each server
  asked,    \* the guess a server's I/O loop is having counted, or None
  toCount,  \* the workers that have not counted it: count_ of the latch
  counts,   \* lessCount and equalCount
  kth,      \* kth_
  told,     \* nServerState_, totalCount_, min_ and max_
  low, high, guess,
  round,    \* nLess_, nEqual_ and nAnsewered_
  nIteration,
  found     \* the element the client reports, or None

serverVars == <<numbers, asked, toCount, counts>>
searchVars == <<kth, told, low, high, guess, round, nIteration, found>>
vars == <<fleetVars, serverVars, searchVars>>

NewRound == [less |-> 0, equal |-> 0, answered |-> 0]

\* What lower_bound and upper_bound give on the sorted vector of a worker.
Less(vec, x)  == Cardinality({i \in DOMAIN vec : vec[i] < x})
Equal(vec, x) == Cardinality({i \in DOMAIN vec : vec[i] = x})

\* The numbers of a server and where they are, a worker and an index; count_, min_
\* and max_ of its constructor.
Held(p) == UNION {Range(numbers[p][w]) : w \in Worker}
PlacesOf(p) == UNION {{w} \X DOMAIN numbers[p][w] : w \in Worker}
CountOf(p) == Cardinality(PlacesOf(p))
StateOf(p) == [kind |-> "state", count |-> CountOf(p),
               min |-> Min(Held(p)), max |-> Max(Held(p))]

Message == [kind : {"state"}, count : Nat, min : Int, max : Int]
           \cup [kind : {"answer"}, less : Nat, equal : Nat]
           \cup [kind : {"query"}, guess : Int]

TypeOK ==
  /\ FleetTypeOK(Message)
  /\ asked \in [Peer -> Int \cup {None}]
  /\ toCount \in [Peer -> SUBSET Worker]
  /\ counts \in [Peer -> [less : Nat, equal : Nat]]
  /\ kth \in Int
  /\ told \in [servers : 0 .. Cardinality(Peer), count : Nat, min : Int,
               max : Int]
  /\ {low, high, guess} \subseteq Int
  /\ round \in [less : Nat, equal : Nat, answered : 0 .. Cardinality(Peer)]
  /\ nIteration \in Nat
  /\ found \in Int \cup {None}

Init ==
  /\ FleetInit
  /\ numbers \in AllNumbers
  /\ asked = [p \in Peer |-> None]
  /\ toCount = [p \in Peer |-> {}]
  /\ counts = [p \in Peer |-> [less |-> 0, equal |-> 0]]
  /\ kth \in Kths
  /\ told = [servers |-> 0, count |-> 0, min |-> IntMax, max |-> IntMin]
  /\ low = 0 /\ high = 0 /\ guess = 0
  /\ round = NewRound
  /\ nIteration = 0
  /\ found = None

-----------------------------------------------------------------------------
(* A server. *)

ServerAccepts(p) ==
  /\ Accept(p, StateOf(p))
  /\ UNCHANGED <<serverVars, searchVars>>

\* lessEqualCount(): a task is queued to each worker, and the I/O loop waits.
OnQuery(p) ==
  /\ asked[p] = None
  /\ Takes(p)
  /\ asked' = [asked EXCEPT ![p] = FromClient(p).guess]
  /\ toCount' = [toCount EXCEPT ![p] = Worker]
  /\ counts' = [counts EXCEPT ![p] = [less |-> 0, equal |-> 0]]
  /\ UNCHANGED <<toClient, numbers, searchVars>>

\* A worker's task: it adds to the two counts and counts the latch down.
CountTask(p, w) ==
  /\ srv[p] = "open" /\ w \in toCount[p]
  /\ counts' = [counts EXCEPT
       ![p] = [less |-> @.less + Less(numbers[p][w], asked[p]),
               equal |-> @.equal + Equal(numbers[p][w], asked[p])]]
  /\ toCount' = [toCount EXCEPT ![p] = @ \ {w}]
  /\ UNCHANGED <<fleetVars, numbers, asked, searchVars>>

\* The latch is not waited for.
SendAnswer_Fault(p) ==
  /\ srv[p] = "open" /\ asked[p] # None
  /\ Answers(p, [kind |-> "answer", less |-> counts[p].less,
                 equal |-> counts[p].equal])
  /\ asked' = [asked EXCEPT ![p] = None]
  /\ toCount' = [toCount EXCEPT ![p] = {}]
  /\ UNCHANGED <<loop, conn, srv, toServer, failed, numbers, counts,
                 searchVars>>

\* The latch opens: lessEqualCount() sends the answer and returns.
SendAnswer(p) ==
  /\ srv[p] = "open" /\ asked[p] # None /\ toCount[p] = {}
  /\ Answers(p, [kind |-> "answer", less |-> counts[p].less,
                 equal |-> counts[p].equal])
  /\ asked' = [asked EXCEPT ![p] = None]
  /\ UNCHANGED <<loop, conn, srv, toServer, failed, numbers, toCount, counts,
                 searchVars>>

\* Not while the I/O loop waits for the workers.
ServerEnds(p) ==
  /\ asked[p] = None
  /\ ServerCloses(p)
  /\ UNCHANGED <<serverVars, searchVars>>

-----------------------------------------------------------------------------
(* The client. *)

Query(g) == Send([p \in Peer |-> <<[kind |-> "query", guess |-> g]>>])

\* The last state starts the search; kth_ <= 0 stands for the median.
StartSearch(state) ==
  /\ low' = state.min /\ high' = state.max
  /\ guess' = low' + (high' - low') \div 2
  /\ kth' = IF kth <= 0 THEN (state.count + 1) \div 2
            ELSE IF kth > state.count THEN state.count ELSE kth
  /\ Query(guess')

OnServerState(p) ==
  LET state == FromServer(p)
  IN /\ Receives(p)
     /\ state.kind = "state"
     /\ told' = [servers |-> told.servers + 1,
                 count |-> told.count + state.count,
                 min |-> Min({told.min, state.min}),
                 max |-> Max({told.max, state.max})]
     /\ IF told'.servers = Cardinality(Peer)
        THEN StartSearch(told')
        ELSE UNCHANGED <<toServer, kth, low, high, guess>>
     /\ UNCHANGED <<loop, conn, serverVars, round, nIteration, found>>

\* The guess itself stays in the interval.
NarrowTo_Fault(sum) ==
  IF sum.less < kth
  THEN low' = guess /\ UNCHANGED high
  ELSE high' = guess - 1 /\ UNCHANGED low

\* The half of the interval in which the element is.
NarrowTo(sum) ==
  IF sum.less < kth
  THEN low' = guess + 1 /\ UNCHANGED high
  ELSE high' = guess - 1 /\ UNCHANGED low

NextRound(sum) ==
  /\ NarrowTo(sum)
  /\ guess' = low' + (high' - low') \div 2
  /\ Query(guess')
  /\ round' = NewRound
  /\ UNCHANGED <<loop, conn, found>>

\* The element is reported, and the connection that brought the last answer
\* shut down; the others follow as Fleet's rule has it.
Report(p, sum) ==
  /\ found' = guess
  /\ Shutdown(p)
  /\ round' = sum
  /\ UNCHANGED <<toServer, low, high, guess>>

OnAnswer(p) ==
  LET answer == FromServer(p)
      sum == [less |-> round.less + answer.less,
              equal |-> round.equal + answer.equal,
              answered |-> round.answered + 1]
  IN /\ Receives(p)
     /\ answer.kind = "answer"
     /\ IF sum.answered # Cardinality(Peer)
        THEN /\ round' = sum
             /\ UNCHANGED <<loop, conn, toServer, low, high, guess, nIteration,
                            found>>
        ELSE /\ nIteration' = nIteration + 1
             /\ IF sum.less < kth /\ sum.less + sum.equal >= kth
                THEN Report(p, sum)
                ELSE NextRound(sum)
     /\ UNCHANGED <<serverVars, kth, told>>

-----------------------------------------------------------------------------
SearchUnchanged == UNCHANGED <<serverVars, searchVars>>

Steps(p) ==
  \/ ServerAccepts(p) \/ OnQuery(p) \/ SendAnswer(p) \/ ServerEnds(p)
  \/ \E w \in Worker : CountTask(p, w)
  \/ OnServerState(p) \/ OnAnswer(p)

Next == (FleetNext /\ SearchUnchanged) \/ \E p \in Peer : Steps(p)

Spec == Init /\ [][Next]_vars

\* Loops handle what epoll reports to them, workers run their tasks, and each
\* server is there some day; a server need not be lost.
FairSpec ==
  /\ Spec
  /\ WF_vars(Leave /\ SearchUnchanged)
  /\ \A p \in Peer : /\ WF_vars(Connected(p) /\ SearchUnchanged)
                      /\ WF_vars(Down(p) /\ SearchUnchanged)
                      /\ WF_vars(ServerAccepts(p) \/ OnQuery(p) \/ SendAnswer(p)
                                   \/ ServerEnds(p))
                      /\ WF_vars(OnServerState(p) \/ OnAnswer(p))
                      /\ \A w \in Worker : WF_vars(CountTask(p, w))

-----------------------------------------------------------------------------
(* Properties. *)

\* All the numbers, and those below, or at, x.
Places == UNION {{p} \X PlacesOf(p) : p \in Peer}
NumberAt(place) == numbers[place[1]][place[2][1]][place[2][2]]

Below(x) == {place \in Places : NumberAt(place) < x}
At(x)    == {place \in Places : NumberAt(place) = x}

IsKth(x) ==
  /\ Cardinality(Below(x)) < kth
  /\ kth <= Cardinality(Below(x)) + Cardinality(At(x))

\* The search never drops the element it looks for, whichever answers come
\* first and whichever servers are lost, and what it reports is that element
\* (KthClient.cc:140 asserts that the interval is not empty): no round mixes
\* the answers of two guesses, or goes on with the answers of some servers.
SoughtInRange ==
  told.servers = Cardinality(Peer) =>
    \E x \in low .. high : IsKth(x) /\ (found # None => found = x)

\* Each round halves the interval, so that 64 rounds are enough for any
\* (KthClient.cc:139 asserts it).
Halves ==
  (told.servers = Cardinality(Peer) /\ found = None) =>
    (high - low + 1) * 2^nIteration <= told.max - told.min + 1

\* The client leaves its loop, having found the element or been refused or
\* left by a server (KthClient.cc:70): the connections that remain are shut
\* down one after the other, whatever state the search is in.  The loop is left
\* all the same when quit() is called twice, where a debug build aborts.
SearchEnds == <>(loop = "left" /\ (found # None \/ failed))
=============================================================================
