---------------------------- MODULE MetainfoFetch ----------------------------
(***************************************************************************)
(* How the metadata of one torrent is fetched (fetchMetaInfo of            *)
(* src/internal/dht/metainfo/handler.go, src/internal/protocol/metainfo):  *)
(* one peer after the other is connected to, greeted, asked for all pieces *)
(* and read from until it has sent as many bytes as it announced.  A peer  *)
(* may send anything.  Bytes are counted in units of half a piece; a piece *)
(* that has arrived is its number, its length and whether its bytes are    *)
(* those of the torrent.                                                   *)
(***************************************************************************)
EXTENDS Naturals, Sequences, FiniteSets

CONSTANTS Sizes,   \* that the metadata of a torrent may have
          Peers,   \* how many are tried, of those that the node named
          MaxSize  \* maxMetadataSize

VARIABLES size,      \* of the metadata
          content,   \* what the torrent is: "fine", "banned", or not to be parsed
          at,        \* where the goroutine is
          peer,      \* the number of the peer
          announced, \* metadata_size of its extension handshake
          arrived,   \* the pieces it has sent
          held,      \* slots of the two semaphores, and the connection
          stopped,   \* the context of the consumer is over
          outcome, blocked,
          refused    \* history: how peers had behaved whose messages were refused

vars == <<size, content, at, peer, announced, arrived, held, stopped, outcome, blocked, refused>>
torrent == <<size, content>>

PieceSize == 2

Init ==
    /\ size \in Sizes /\ content \in {"fine", "banned", "odd"}
    /\ at = "idle" /\ peer = 1 /\ announced = 0 /\ arrived = <<>>
    /\ held = {} /\ stopped = FALSE /\ outcome = "none" /\ blocked = FALSE /\ refused = {}

----------------------------------------------------------------------------
(***************************************************************************)
(* The end of a request, with what is deferred.                            *)
(***************************************************************************)
Ends(result) == at' = "done" /\ held' = {} /\ outcome' = result

\* The request has failed: the next peer, if there is one.
Fails ==
    /\ announced' = 0 /\ arrived' = <<>>
    /\ IF peer = Peers
       THEN Ends("failed") /\ UNCHANGED peer
       ELSE at' = "acquire" /\ held' = {"query"} /\ peer' = peer + 1 /\ UNCHANGED outcome

Moves(from, to) ==
    /\ at = from /\ at' = to
    /\ UNCHANGED <<torrent, peer, announced, arrived, stopped, outcome, blocked, refused>>

\* The consumer has taken a slot for the goroutine that it starts.
Begin == ~stopped /\ Moves("idle", "acquire") /\ held' = {"query"}
Acquire == Moves("acquire", "dial") /\ held' = held \cup {"slot"}
Connect == Moves("dial", "greet") /\ held' = held \cup {"socket"}
Greeted == Moves("greet", "extend") /\ UNCHANGED held

\* The deadline of the connection, a connection or a message that is broken, another hash or no
\* extensions, a rejection; and a slot or a limiter that is waited for when the context ends.
Broken ==
    /\ \/ at \in {"dial", "greet", "extend", "ask", "pieces"}
       \/ at = "acquire" /\ stopped
    /\ Fails
    /\ UNCHANGED <<torrent, stopped, blocked, refused>>

Usable(s) == 0 < s /\ s < MaxSize

Extended(s) ==
    /\ at = "extend"
    /\ \/ Usable(s) /\ at' = "ask" /\ announced' = s /\ UNCHANGED <<peer, arrived, held, outcome>>
       \/ ~Usable(s) /\ Fails
    /\ UNCHANGED <<torrent, stopped, blocked, refused>>

AskForAll == Moves("ask", "pieces") /\ UNCHANGED held

----------------------------------------------------------------------------
(***************************************************************************)
(* readAllPieces.                                                          *)
(***************************************************************************)
\* The bytes of the pieces, whatever piece they are said to be of.
Bytes(pieces) == UNION {{i} \X (1..pieces[i].length) : i \in DOMAIN pieces}
ReceivedSize(pieces) == Cardinality(Bytes(pieces))

Length(n, total) == IF (n + 1) * PieceSize <= total THEN PieceSize ELSE total - n * PieceSize
LastPiece(total) == (total - 1) \div PieceSize

\* What the refused pieces say of the peer: all pieces that it sent were right, with none twice
\* and all in order, or with the last one, shorter than the others, before one of them.
Right(pieces) ==
    /\ announced = size
    /\ \A i \in DOMAIN pieces :
         /\ pieces[i].right /\ pieces[i].number <= LastPiece(size)
         /\ pieces[i].length = Length(pieces[i].number, size)
         /\ \A j \in DOMAIN pieces : pieces[i].number = pieces[j].number => i = j
EarlyEnd(pieces) ==
    /\ Length(LastPiece(size), size) < PieceSize
    /\ Len(pieces) <= LastPiece(size) /\ pieces[Len(pieces)].number = LastPiece(size)
Behaviour(pieces) == IF ~Right(pieces) THEN "wrong" ELSE IF EarlyEnd(pieces) THEN "early" ELSE "right"

\* As Excessive, for a loop that compares before it adds up.
ExcessiveBefore(pieces) ==
    LET last == pieces[Len(pieces)] IN
      \/ last.length > PieceSize
      \/ last.length < PieceSize /\ ReceivedSize(SubSeq(pieces, 1, Len(pieces) - 1)) # announced
      \/ ReceivedSize(pieces) > announced

\* A piece that is too long, that is short without being the last to come, or that is too much.
Excessive(pieces) ==
    LET last == pieces[Len(pieces)] IN
      \/ last.length > PieceSize
      \/ last.length < PieceSize /\ ReceivedSize(pieces) # announced
      \/ ReceivedSize(pieces) > announced

\* The slice of a piece with such a number does not exist.
OutOfRange(p) == p.number * PieceSize + p.length > announced

Receive(p) ==
    /\ at = "pieces"
    /\ LET pieces == Append(arrived, p) IN
         \/ Excessive(pieces) /\ Fails /\ refused' = refused \cup {Behaviour(pieces)}
         \/ /\ ~Excessive(pieces) /\ OutOfRange(p)
            /\ Ends("panicked")
            /\ refused' = refused \cup {Behaviour(pieces)}
            /\ UNCHANGED <<peer, announced, arrived>>
         \/ /\ ~Excessive(pieces) /\ ~OutOfRange(p)
            /\ arrived' = pieces
            /\ at' = IF ReceivedSize(pieces) = announced THEN "check" ELSE at
            /\ UNCHANGED <<peer, announced, held, outcome, refused>>
    /\ UNCHANGED <<torrent, stopped, blocked>>

----------------------------------------------------------------------------
(***************************************************************************)
(* ParseMetaInfoBytes, and the banning checker.                            *)
(***************************************************************************)
\* The bytes are those of the torrent when all of its pieces are there: one that came twice
\* leaves zeros where another should be.
Genuine ==
    /\ announced = size
    /\ \A i \in DOMAIN arrived : arrived[i].right
    /\ \A n \in 0..LastPiece(size) :
         \E i \in DOMAIN arrived : arrived[i].number = n /\ arrived[i].length = Length(n, size)

Check ==
    /\ at = "check"
    /\ \/ /\ Genuine /\ content = "fine" /\ Ends("found")
          /\ UNCHANGED <<peer, announced, arrived, blocked, refused>>
       \/ /\ Genuine /\ content = "banned" /\ Ends("banned")
          /\ blocked' \in BOOLEAN
          /\ UNCHANGED <<peer, announced, arrived, refused>>
       \/ /\ ~Genuine \/ content = "odd"
          /\ Fails
          /\ refused' = IF Genuine THEN refused ELSE refused \cup {Behaviour(arrived)}
          /\ UNCHANGED blocked
    /\ UNCHANGED <<torrent, stopped>>

Stop ==
    /\ ~stopped /\ stopped' = TRUE
    /\ UNCHANGED <<torrent, at, peer, announced, arrived, held, outcome, blocked, refused>>

Messages == [number : 0..LastPiece(MaxSize), length : 0..(PieceSize + 1), right : BOOLEAN]

Work ==
    \/ Acquire \/ Connect \/ Greeted \/ Broken \/ AskForAll \/ Check
    \/ \E s \in 0..MaxSize : Extended(s)
    \/ \E p \in Messages : Receive(p)

Next == Begin \/ Work \/ Stop

Spec == Init /\ [][Next]_vars

\* Every connection has a deadline, and the slots that are waited for come back.
Fairness == WF_vars(Work)

FairSpec == Spec /\ Fairness

----------------------------------------------------------------------------
TypeOK ==
    /\ at \in {"idle", "acquire", "dial", "greet", "extend", "ask", "pieces", "check", "done"}
    /\ peer \in 1..Peers /\ announced \in 0..MaxSize /\ arrived \in Seq(Messages)
    /\ outcome \in {"none", "found", "banned", "failed", "panicked"}
    /\ ReceivedSize(arrived) <= announced

\* What is handed on are the bytes of the torrent, whatever the peers have sent
\* (src/internal/protocol/metainfo/parse.go:13).
FoundIsGenuine == outcome = "found" => Genuine /\ content = "fine"

\* Nobody is refused, and nothing panics, for right pieces, unless the short one comes before others
\* (src/internal/protocol/metainfo/metainforequester/requester.go:337).
RightIsTaken == "right" \notin refused

\* Whatever happens to a request, its slot is free and its connection closed before the next, and
\* the goroutine keeps neither of them.
AllReturned ==
    /\ at \in {"idle", "done"} => held = {}
    /\ at = "acquire" => held = {"query"}
    /\ "socket" \in held => "slot" \in held

\* A panic ends the fetch, and so does banned content; only a failure of all peers may do else.
GivesUpAfterAll == outcome = "failed" => peer = Peers /\ ~blocked

\* A fetch that has begun ends.
FetchEnds == at = "acquire" ~> at = "done"
=============================================================================
