-------------------------------- MODULE NQueen --------------------------------
(***************************************************************************)
(* The number of ways to put n queens on a board, counted by several       *)
(* servers (example/nqueen): an NQueenClient that gives out sub-problems,  *)
(* the columns of the first two queens, at first one for each core of a    *)
(* server and then one for each answer, and NQueenServers that solve them  *)
(* on a thread pool by backtracking and answer from its threads.           *)
(*                                                                         *)
(* The connections and the rule that ends the client are Fleet's.  A       *)
(* message is the record that Codec prints as a line and parses again; the *)
(* number of queens, which a request carries along, is the client's.       *)
(* A bit mask of columns is the set of its bits.                           *)
(*                                                                         *)
(* The pool is one that ThreadPool shows to run each task once; its queue  *)
(* of 65536 tasks is never full, as a server is sent a task for each core  *)
(* and one for each answer.                                                *)
(***************************************************************************)
EXTENDS Fleet, Integers

CONSTANT Problems   \* what nQueen_ and the sizes of the servers' pools may be

ASSUME NQueenAssumption ==
  \A problem \in Problems : /\ problem.nQueen \in 1 .. 27
                             /\ problem.cores \in [Peer -> Nat \ {0}]

VARIABLES
  nQueen,         \* nQueen_
  cores,          \* for each server, the threads of its pool
  requests,       \* requests_
  totalRequests, totalResponse, answers,
  queue,          \* for each server, the tasks in its pool's queue
  solving         \* and those its threads are running

clientVars == <<nQueen, requests, totalRequests, totalResponse, answers>>
poolVars == <<cores, queue, solving>>
vars == <<fleetVars, clientVars, poolVars>>

-----------------------------------------------------------------------------
(* BackTrack. *)

Bits == 0 .. 31

\* col[row], diag[row] and antidiag[row]: the columns not to be used.
EmptyBoard == [row |-> 0, col |-> {}, diag |-> {}, antidiag |-> {}]

IsFree(board, c) == c \notin board.col \cup board.diag \cup board.antidiag

\* The diagonal is shifted the wrong way.
PutQueen_Fault(board, c) ==
  [row      |-> board.row + 1,
   col      |-> board.col \cup {c},
   diag     |-> {x + 1 : x \in board.diag \cup {c}} \cap Bits,
   antidiag |-> {x + 1 : x \in board.antidiag \cup {c}} \cap Bits]

PutQueen(board, c) ==
  [row      |-> board.row + 1,
   col      |-> board.col \cup {c},
   diag     |-> {x - 1 : x \in board.diag \cup {c}} \cap Bits,
   antidiag |-> {x + 1 : x \in board.antidiag \cup {c}} \cap Bits]

\* The boards with a queen more in the next row.
Successors(n, board) ==
  {PutQueen(board, c) : c \in {x \in 0 .. n - 1 : IsFree(board, x)}}

\* search(): how often count is incremented.
RECURSIVE Search(_, _)
Search(n, board) ==
  IF board.row = n - 1
  THEN Cardinality(Successors(n, board))
  ELSE MapThenSumSet(LAMBDA next : Search(n, next), Successors(n, board))

\* tryPutQueens() for the queens that are left, and search().
RECURSIVE SolveFrom(_, _, _)
SolveFrom(n, board, queens) ==
  IF queens = <<>> THEN Search(n, board)
  ELSE LET c == Head(queens)
       IN IF c >= n \/ ~IsFree(board, c) THEN 0
          ELSE IF board.row = n - 1 THEN 1
          ELSE SolveFrom(n, PutQueen(board, c), Tail(queens))

\* solve()
Solve(n, queens) ==
  IF Len(queens) > n THEN 0 ELSE SolveFrom(n, EmptyBoard, queens)

-----------------------------------------------------------------------------
\* initRequests(): requests_ is used from its end.
InitRequests(n) ==
  IF n = 1 THEN << <<>> >>
  ELSE [k \in 1 .. ((n + 1) \div 2) * n |-> <<(k - 1) \div n, (k - 1) % n>>]

Init ==
  /\ FleetInit
  /\ \E problem \in Problems : /\ nQueen = problem.nQueen
                               /\ cores = problem.cores
  /\ requests = InitRequests(nQueen)
  /\ totalRequests = Len(requests)
  /\ totalResponse = 0
  /\ answers = 0
  /\ queue = [p \in Peer |-> <<>>]
  /\ solving = [p \in Peer |-> {}]

-----------------------------------------------------------------------------
(* A server. *)

TellCores(p) ==
  /\ Accept(p, [kind |-> "cores", cores |-> cores[p]])
  /\ UNCHANGED <<clientVars, poolVars>>

\* onRequest(): runTask()
OnRequest(p) ==
  /\ Takes(p)
  /\ queue' = [queue EXCEPT ![p] = Append(@, FromClient(p).cols)]
  /\ UNCHANGED <<toClient, clientVars, cores, solving>>

\* A thread of the pool takes a task, whether or not its connection lives.
TakeTask(p) ==
  /\ srv[p] \in {"open", "closed"}
  /\ queue[p] # <<>> /\ Cardinality(solving[p]) < cores[p]
  /\ queue' = [queue EXCEPT ![p] = Tail(@)]
  /\ solving' = [solving EXCEPT ![p] = @ \cup {Head(queue[p])}]
  /\ UNCHANGED <<fleetVars, clientVars, cores>>

\* It has solved the sub-problem and sends the answer.
SendResponse(p, cols) ==
  /\ srv[p] \in {"open", "closed"}
  /\ cols \in solving[p]
  /\ Answers(p, [kind |-> "response", cols |-> cols,
                 count |-> Solve(nQueen, cols)])
  /\ solving' = [solving EXCEPT ![p] = @ \ {cols}]
  /\ UNCHANGED <<loop, conn, srv, toServer, failed, clientVars, cores,
                 queue>>

ServerEnds(p) ==
  /\ ServerCloses(p)
  /\ UNCHANGED <<clientVars, poolVars>>

-----------------------------------------------------------------------------
(* The client. *)

\* The last `count` requests are sent to p, or dropped if p is not up.
SendRequests(p, count) ==
  LET left == Len(requests) - count
      sent == Reverse(SubSeq(requests, left + 1, Len(requests)))
  IN /\ requests' = SubSeq(requests, 1, left)
     /\ Send([q \in Peer |->
                IF q = p THEN [i \in DOMAIN sent |-> [cols |-> sent[i]]]
                ELSE <<>>])

OnTellCores(p) ==
  /\ Receives(p)
  /\ FromServer(p).kind = "cores"
  /\ SendRequests(p, Min({FromServer(p).cores, Len(requests)}))
  /\ UNCHANGED <<loop, conn, nQueen, totalRequests, totalResponse, answers,
                 poolVars>>

\* Each count stands for its mirror image too, but for the middle column.
Weighted(cols, count) ==
  IF cols # <<>> /\ ~(nQueen % 2 = 1 /\ cols[1] + 1 = (nQueen + 1) \div 2)
  THEN 2 * count ELSE count

\* The next request is not sent.
OnMessage_Fault(p) ==
  /\ Receives(p)
  /\ FromServer(p).kind = "response"
  /\ answers' = answers + Weighted(FromServer(p).cols, FromServer(p).count)
  /\ totalResponse' = totalResponse + 1
  /\ IF totalResponse' = totalRequests
     THEN Shutdown(p) ELSE UNCHANGED <<loop, conn>>
  /\ UNCHANGED <<toServer, requests, nQueen, totalRequests, poolVars>>

OnMessage(p) ==
  /\ Receives(p)
  /\ FromServer(p).kind = "response"
  /\ answers' = answers + Weighted(FromServer(p).cols, FromServer(p).count)
  /\ totalResponse' = totalResponse + 1
  /\ IF totalResponse' = totalRequests
     THEN Shutdown(p) ELSE UNCHANGED <<loop, conn>>
  /\ IF requests # <<>>
     THEN SendRequests(p, 1) ELSE UNCHANGED <<toServer, requests>>
  /\ UNCHANGED <<nQueen, totalRequests, poolVars>>

-----------------------------------------------------------------------------
WorkUnchanged == UNCHANGED <<clientVars, poolVars>>

Responds(p) == \E cols \in solving[p] : SendResponse(p, cols)

Next ==
  \/ FleetNext /\ WorkUnchanged
  \/ \E p \in Peer : \/ TellCores(p) \/ OnRequest(p) \/ TakeTask(p)
                     \/ Responds(p) \/ ServerEnds(p)
                     \/ OnTellCores(p) \/ OnMessage(p)

Spec == Init /\ [][Next]_vars

\* Loops handle what epoll reports to them, pools run their tasks, and each
\* server is there some day; a server need not be lost.
FairSpec ==
  /\ Spec
  /\ WF_vars(Leave /\ WorkUnchanged)
  /\ \A p \in Peer : /\ WF_vars(Connected(p) /\ WorkUnchanged)
                      /\ WF_vars(Down(p) /\ WorkUnchanged)
                      /\ WF_vars(TellCores(p) \/ OnRequest(p) \/ ServerEnds(p))
                      /\ WF_vars(TakeTask(p)) /\ WF_vars(Responds(p))
                      /\ WF_vars(OnTellCores(p) \/ OnMessage(p))

-----------------------------------------------------------------------------
(* Properties. *)

\* The solutions themselves: a column for each row, no two queens on a line.
Solutions(n) ==
  {q \in [1 .. n -> 1 .. n] :
     \A i, j \in 1 .. n : i < j =>
       q[i] # q[j] /\ q[i] - q[j] \notin {i - j, j - i}}

NumSolutions ==
  [n \in {problem.nQueen : problem \in Problems} |-> Cardinality(Solutions(n))]

\* answerSheet up to 8 queens.
AnswerSheet == <<0, 1, 0, 0, 2, 10, 4, 40, 92>>

\* When every sub-problem has been answered, the sum is the number of
\* solutions, the one NQueenClient.cc:105 prints "right" for: the sub-problems
\* and their mirror images cover the board once, each is given to one server
\* and answered once, and the bit masks of the search are those of the lines.
AnswerRight ==
  totalResponse = totalRequests =>
    answers = NumSolutions[nQueen] /\ answers = AnswerSheet[nQueen + 1]

\* The client leaves its loop, having an answer for every sub-problem or been
\* refused or left by a server (NQueenClient.cc:72): as long as there are
\* requests each answer brings a server the next, and the client does not wait
\* for one that it gave to a connection already shut down.  The loop is left
\* all the same when quit() is called twice, where a debug build aborts.
WorkEnds == <>(loop = "left" /\ (totalResponse = totalRequests \/ failed))
=============================================================================
