---------------------------- MODULE WebPageProofs ----------------------------
(***************************************************************************)
(* Theorems about WebPage, for every window and scrollback, any number of  *)
(* lines, reboots, commands and failures.                                  *)
(***************************************************************************)
EXTENDS WebPage, TLAPS, FiniteSetTheorems, SequenceTheorems

-------------------------------------------------------------------------------
(* The new lines of a window. *)

\* The numbers from a to b, ascending.
LEMMA AscendingInterval ==
  ASSUME NEW a \in Nat, NEW b \in Nat, a <= b + 1
  PROVE  Ascending(a .. b) = [i \in 1 .. b + 1 - a |-> a + i - 1]
<1>1. Cardinality(a .. b) = b + 1 - a
  BY FS_Interval
<1>2. ASSUME NEW i \in 1 .. b + 1 - a
      PROVE  (CHOOSE e \in a .. b : Cardinality({d \in a .. b : d <= e}) = i) = a + i - 1
  <2>1. \A e \in a .. b : Cardinality({d \in a .. b : d <= e}) = e + 1 - a
    <3> SUFFICES ASSUME NEW e \in a .. b
                 PROVE  Cardinality({d \in a .. b : d <= e}) = e + 1 - a
      OBVIOUS
    <3>1. {d \in a .. b : d <= e} = a .. e
      OBVIOUS
    <3>2. Cardinality(a .. e) = e + 1 - a
      BY FS_Interval
    <3> QED
      BY <3>1, <3>2
  <2>2. a + i - 1 \in a .. b /\ (a + i - 1) + 1 - a = i
    OBVIOUS
  <2>3. \A e \in a .. b : e + 1 - a = i => e = a + i - 1
    OBVIOUS
  <2> QED
    BY <2>1, <2>2, <2>3
<1> QED
  BY <1>1, <1>2 DEF Ascending

\* The lines of boot b that are numbered from a to c.
Lines(b, a, c) == [i \in 1 .. c + 1 - a |-> [boot |-> b, seq |-> a + i - 1]]

\* Where the new lines of a window begin.
From(p, last) == IF last < First(p) THEN First(p) ELSE last + 1

\* What is new in a window are its lines from there on; with none, the last one was the newest.
LEMMA NewLinesAre ==
  ASSUME NEW p \in Polls, NEW last \in Nat,
         polls[p].upto \in Nat, polls[p].upto > 0, last <= polls[p].upto
  PROVE  /\ First(p) \in Nat /\ First(p) >= 1 /\ First(p) <= polls[p].upto
         /\ From(p, last) \in Nat /\ From(p, last) >= First(p) /\ From(p, last) > last
         /\ From(p, last) <= polls[p].upto + 1
         /\ NewLines(p, last) = Lines(polls[p].boot, From(p, last), polls[p].upto)
         /\ (NewLines(p, last) = <<>>) <=> last = polls[p].upto
<1> DEFINE u == polls[p].upto
           f == From(p, last)
<1>1. First(p) \in Nat /\ First(p) >= 1 /\ First(p) <= u
  BY PageAssumption DEF First
<1>2. f \in Nat /\ f >= First(p) /\ f > last /\ f <= u + 1 /\ f >= 1
      /\ (last = u <=> f = u + 1)
  BY <1>1 DEF From
<1>3. {seq \in Window(p) : IsNew(seq, last)} = f .. u
  BY <1>1, <1>2 DEF Window, IsNew, From
<1>4. Ascending({seq \in Window(p) : IsNew(seq, last)}) = [i \in 1 .. u + 1 - f |-> f + i - 1]
  <2> HIDE DEF f
  <2>1. Ascending(f .. u) = [i \in 1 .. u + 1 - f |-> f + i - 1]
    BY <1>2, AscendingInterval
  <2> QED
    BY <1>3, <2>1
<1>5. NewLines(p, last) = Lines(polls[p].boot, f, u)
  <2> DEFINE numbers == [i \in 1 .. u + 1 - f |-> f + i - 1]
  <2>1. NewLines(p, last) = [i \in DOMAIN numbers |-> [boot |-> polls[p].boot, seq |-> numbers[i]]]
    BY <1>4 DEF NewLines
  <2> QED
    BY <2>1 DEF Lines
<1>6. NewLines(p, last) = <<>> <=> f = u + 1
  <2> HIDE DEF f
  <2>1. CASE f = u + 1
    <3>1. 1 .. u + 1 - f = {}
      BY <1>2, <2>1
    <3>2. Lines(polls[p].boot, f, u) = <<>>
      BY <3>1 DEF Lines
    <3> QED
      BY <1>5, <2>1, <3>2
  <2>2. CASE f # u + 1
    <3>1. 1 \in DOMAIN Lines(polls[p].boot, f, u)
      BY <1>2, <2>2 DEF Lines
    <3>2. 1 \notin DOMAIN <<>>
      OBVIOUS
    <3> QED
      BY <1>5, <2>2, <3>1, <3>2
  <2> QED
    BY <2>1, <2>2
<1> QED
  BY <1>1, <1>2, <1>5, <1>6
-------------------------------------------------------------------------------
(* The inductive invariant. *)

\* A status request of the page.
Poll == [at : {"none", "board", "answer"}, by : {"timer", "chain"},
         boot : 0 .. MaxBoots, upto : 0 .. MaxLines]

\* At most one poll is under way, and while it is the flag is set, and the chain waits for one
\* of its own.
OnePoll ==
    /\ \A p, q \in Polls : polls[p].at # "none" =>
          statusFetchInFlight /\ (polls[q].at # "none" => p = q)
    /\ \A p \in Polls : polls[p].at # "none" /\ polls[p].by = "chain" => sending = "await"

\* An answer on its way is no older than what was merged, and no newer than the board.
Answers ==
    \A p \in Polls : polls[p].at = "answer" =>
        /\ polls[p].boot \in 1 .. boot /\ merged <= polls[p].boot
        /\ polls[p].boot = merged => filteredLastSeq <= polls[p].upto
        /\ polls[p].boot = boot => polls[p].upto <= count

\* The page is not ahead of the board, and has noticed fewer reboots than there were.
Merged ==
    /\ restarts \in Nat
    /\ merged <= boot
    /\ merged = boot => filteredLastSeq <= count
    /\ merged = 0 => filteredLastSeq = 0 /\ restarts = 0
    /\ merged # 0 => restarts < merged

\* A line comes before another: it is of an older boot, or older in the same.
Before(a, b) == a.boot < b.boot \/ (a.boot = b.boot /\ a.seq < b.seq)

\* What is shown is in order, and comes before what will be.
Shown ==
    /\ \A i \in DOMAIN filteredBuffer :
          /\ filteredBuffer[i].boot <= merged
          /\ filteredBuffer[i].boot = merged => filteredBuffer[i].seq <= filteredLastSeq
    /\ \A i, j \in DOMAIN filteredBuffer :
          i < j => Before(filteredBuffer[i], filteredBuffer[j])

\* With all reboots noticed, the newest window is what the scrollback ends with.
Complete ==
    restarts = merged - 1 =>
        \A k \in 0 .. WINDOW - 1 : k < filteredLastSeq =>
            /\ k < Len(filteredBuffer)
            /\ filteredBuffer[Len(filteredBuffer) - k]
                  = [boot |-> merged, seq |-> filteredLastSeq - k]

\* The board has run the POST at the head of the chain.
HasRun == sending = "post" /\ ran

\* The chain goes on where what was executed ends, but for what was given up.
Commands ==
    /\ sending = "post" => chain # <<>>
    /\ \A i, j \in DOMAIN chain : i < j => chain[i] < chain[j]
    /\ \A i \in DOMAIN chain : chain[i] <= clicks
    /\ \A i \in DOMAIN executed : executed[i] <= clicks
    /\ \A i, j \in DOMAIN executed : i < j =>
          executed[i] # executed[j] /\ (executed[i] < executed[j] \/ executed[j] \in abandoned)
    /\ \A i \in DOMAIN executed, j \in DOMAIN chain :
          executed[i] < chain[j] \/ (HasRun /\ j = 1 /\ executed[i] = chain[1])

\* What was given up is behind the chain, and what of it may still come was not executed.
GivenUp ==
    /\ \A c \in abandoned : c <= clicks
    /\ \A c \in abandoned : \A j \in DOMAIN chain : c < chain[j]
    /\ \A c \in late : \A i \in DOMAIN executed : executed[i] # c

\* The inductive invariant.
PageInv ==
    TypeOK /\ OnePoll /\ Answers /\ Merged /\ Shown /\ Complete /\ Commands /\ GivenUp

\* No poll is one.
LEMMA NoPollIsPoll == NoPoll \in Poll /\ NoPoll.at = "none"
  BY PageAssumption DEF NoPoll, Poll

\* The polls but one that becomes r.
LEMMA PollsWith ==
  ASSUME TypeOK, NEW p \in Polls, NEW r \in Poll, polls' = [polls EXCEPT ![p] = r]
  PROVE  /\ polls' \in [Polls -> Poll]
         /\ polls'[p] = r
         /\ \A q \in Polls : q # p => polls'[q] = polls[q]
<1>1. polls \in [Polls -> Poll]
  BY DEF TypeOK, Poll
<1> QED
  BY <1>1

LEMMA PageInvInit == Init => PageInv
<1> SUFFICES ASSUME Init PROVE PageInv
  OBVIOUS
<1>1. TypeOK
  <2>1. polls \in [Polls -> Poll]
    BY NoPollIsPoll DEF Init
  <2>2. <<>> \in Seq(Line) /\ <<>> \in Seq(1 .. MaxClicks) /\ Len(<<>>) = 0
    OBVIOUS
  <2>3. polls \in [Polls -> [at : {"none", "board", "answer"}, by : {"timer", "chain"},
                            boot : 0 .. MaxBoots, upto : 0 .. MaxLines]]
    BY <2>1 DEF Poll
  <2>4. /\ boot \in 1 .. MaxBoots /\ count \in 0 .. MaxLines
        /\ selections \in 0 .. MaxSelections /\ filteredLastSeq \in 0 .. MaxLines
        /\ merged \in 0 .. MaxBoots /\ clicks \in 0 .. MaxClicks /\ 0 <= SCROLLBACK
    BY PageAssumption DEF Init
  <2>5. statusFetchInFlight \in BOOLEAN /\ selecting \in BOOLEAN /\ ran \in BOOLEAN
    BY DEF Init
  <2> QED
    BY <2>2, <2>3, <2>4, <2>5 DEF Init, TypeOK
<1>2. OnePoll /\ Answers /\ Merged /\ Shown /\ Complete
  BY PageAssumption DEF Init, NoPoll, OnePoll, Answers, Merged, Shown, Complete
<1>3. Commands /\ GivenUp
  BY DEF Init, Commands, GivenUp
<1> QED
  BY <1>1, <1>2, <1>3 DEF PageInv
-------------------------------------------------------------------------------
(* The board. *)

LEMMA LogKeeps == PageInv /\ Log => PageInv'
<1> SUFFICES ASSUME PageInv, Log PROVE PageInv'
  OBVIOUS
<1>1. TypeOK'
  BY PageAssumption DEF PageInv, TypeOK, Log, user, page, commands, posts
<1>2. OnePoll' /\ Shown' /\ Complete' /\ Commands' /\ GivenUp'
  BY DEF PageInv, OnePoll, Shown, Complete, Commands, GivenUp, HasRun, Log, user, page, commands,
         posts
<1>3. Answers' /\ Merged'
  BY DEF PageInv, TypeOK, Answers, Merged, Log, user, page, commands, posts
<1> QED
  BY <1>1, <1>2, <1>3 DEF PageInv

LEMMA RebootKeeps == PageInv /\ Reboot => PageInv'
<1> SUFFICES ASSUME PageInv, Reboot PROVE PageInv'
  OBVIOUS
<1>1. TypeOK'
  BY PageAssumption DEF PageInv, TypeOK, Reboot, user, page
<1>2. OnePoll' /\ Shown' /\ Complete' /\ Commands' /\ GivenUp'
  BY DEF PageInv, OnePoll, Shown, Complete, Commands, GivenUp, HasRun, Reboot, page
<1>3. Answers' /\ Merged'
  BY DEF PageInv, TypeOK, Answers, Merged, Reboot, page
<1> QED
  BY <1>1, <1>2, <1>3 DEF PageInv

LEMMA ServeKeeps == ASSUME PageInv, NEW p \in Polls, Serve(p) PROVE PageInv'
<1> DEFINE k == polls[p]
           r == [k EXCEPT !.at = "answer", !.boot = boot, !.upto = count]
<1>1. TypeOK /\ k \in Poll /\ polls' = [polls EXCEPT ![p] = r]
  BY DEF PageInv, TypeOK, Poll, Serve
<1>2. /\ r \in Poll
      /\ r.at = "answer" /\ r.by = polls[p].by /\ r.boot = boot /\ r.upto = count
  <2> HIDE DEF k
  <2>1. boot \in 0 .. MaxBoots /\ count \in 0 .. MaxLines
    BY <1>1, PageAssumption, SMTT(30) DEF TypeOK
  <2>2. r \in Poll
    BY <1>1, <2>1 DEF Poll
  <2>3. r.at = "answer" /\ r.by = k.by /\ r.boot = boot /\ r.upto = count
    BY <1>1 DEF Poll
  <2> QED
    BY <2>2, <2>3 DEF k
<1> HIDE DEF r
<1>3. /\ polls' \in [Polls -> Poll]
      /\ polls'[p] = r
      /\ \A q \in Polls : q # p => polls'[q] = polls[q]
  BY <1>1, <1>2, PollsWith
<1>4. TypeOK'
  BY <1>3 DEF PageInv, TypeOK, Poll, Serve, user, page, commands, posts
<1>5. Merged' /\ Shown' /\ Complete' /\ Commands' /\ GivenUp'
  BY DEF PageInv, Merged, Shown, Complete, Commands, GivenUp, HasRun, Serve, page, commands,
         posts
<1>6. OnePoll'
  BY <1>2, <1>3 DEF PageInv, OnePoll, Serve, commands, posts
<1>7. Answers'
  BY <1>2, <1>3, SMTT(30) DEF PageInv, TypeOK, Answers, Merged, Serve, page
<1> QED
  BY <1>4, <1>5, <1>6, <1>7 DEF PageInv
-------------------------------------------------------------------------------
(* The polls. *)

\* Only one poll is begun at a time.
LEMMA FetchKeeps ==
  ASSUME PageInv, NEW p \in Polls, NEW who \in {"timer", "chain"}, MayPoll, Fetch(p, who),
         who = "chain" => sending' = "await"
  PROVE  /\ polls' \in [Polls -> Poll] /\ statusFetchInFlight' \in BOOLEAN
         /\ OnePoll' /\ Answers'
<1> DEFINE r == [NoPoll EXCEPT !.at = "board", !.by = who]
<1>1. r \in Poll /\ r.at = "board" /\ r.by = who
  <2>1. NoPoll \in Poll
    BY NoPollIsPoll
  <2>2. r \in Poll
    BY <2>1 DEF Poll
  <2>3. r.at = "board" /\ r.by = who
    BY <2>1 DEF Poll
  <2> QED
    BY <2>2, <2>3
<1>2. polls' = [polls EXCEPT ![p] = r] /\ statusFetchInFlight' = TRUE /\ TypeOK
  BY DEF Fetch, PageInv
<1> HIDE DEF r
<1>3. /\ polls' \in [Polls -> Poll]
      /\ polls'[p] = r
      /\ \A q \in Polls : q # p => polls'[q] = polls[q]
  BY <1>1, <1>2, PollsWith
<1>4. \A q \in Polls : polls[q].at = "none"
  BY DEF PageInv, OnePoll, MayPoll
<1>5. \A q \in Polls : polls'[q].at # "none" =>
         /\ q = p /\ polls'[q].at = "board"
         /\ polls'[q].by = "chain" => sending' = "await"
  BY <1>1, <1>3, <1>4
<1>6. OnePoll'
  BY <1>2, <1>5 DEF OnePoll
<1>7. Answers'
  BY <1>5 DEF Answers
<1>8. statusFetchInFlight' \in BOOLEAN
  BY <1>2
<1> QED
  BY <1>3, <1>6, <1>7, <1>8

LEMMA TimerPollKeeps == ASSUME PageInv, NEW p \in Polls, TimerPoll(p) PROVE PageInv'
<1>1. polls' \in [Polls -> Poll] /\ statusFetchInFlight' \in BOOLEAN /\ OnePoll' /\ Answers'
  BY FetchKeeps DEF TimerPoll
<1>2. TypeOK'
  BY <1>1 DEF PageInv, TypeOK, Poll, TimerPoll, user, page, commands, posts
<1>3. Merged' /\ Shown' /\ Complete' /\ Commands' /\ GivenUp'
  BY DEF PageInv, Merged, Shown, Complete, Commands, GivenUp, HasRun, TimerPoll, page, commands,
         posts
<1> QED
  BY <1>1, <1>2, <1>3 DEF PageInv

\* After a poll no other is under way, and the chain goes on.
LEMMA OverKeeps ==
  ASSUME PageInv, NEW p \in Polls, polls[p].at # "none", Over(p), statusFetchInFlight' = FALSE
  PROVE  /\ polls' \in [Polls -> Poll] /\ sending' \in {"idle", sending}
         /\ OnePoll' /\ Answers' /\ Commands' /\ GivenUp'
<1>1. /\ polls' \in [Polls -> Poll]
      /\ polls'[p] = NoPoll
      /\ \A q \in Polls : q # p => polls'[q] = polls[q]
  BY PollsWith, NoPollIsPoll DEF PageInv, Over
<1>2. \A q \in Polls : polls'[q].at = "none"
  BY <1>1, NoPollIsPoll DEF PageInv, OnePoll
<1>3. OnePoll' /\ Answers'
  BY <1>2 DEF OnePoll, Answers
<1>4. sending' = sending \/ (sending = "await" /\ sending' = "idle")
  BY DEF PageInv, OnePoll, Over
<1>5. UNCHANGED <<clicks, chain, ran, late, executed, abandoned>>
  BY DEF Over, posts
<1>6. (HasRun <=> HasRun') /\ (sending' = "post" => sending = "post")
  BY <1>4, <1>5 DEF HasRun
<1>7. Commands' /\ GivenUp'
  BY <1>5, <1>6 DEF PageInv, Commands, GivenUp
<1> QED
  BY <1>1, <1>3, <1>4, <1>7

\* A poll that brings nothing.
LEMMA PollEndsKeeps ==
  ASSUME PageInv, NEW p \in Polls, PollFails(p) \/ PollNotMerged(p)
  PROVE  PageInv'
<1>1. /\ polls[p].at # "none" /\ Over(p) /\ statusFetchInFlight' = FALSE
      /\ UNCHANGED page
  BY DEF PollFails, PollNotMerged, FailureResetsFlag
<1>2. /\ polls' \in [Polls -> Poll] /\ sending' \in {"idle", sending}
      /\ OnePoll' /\ Answers' /\ Commands' /\ GivenUp'
  BY <1>1, OverKeeps
<1>3. TypeOK'
  BY <1>1, <1>2 DEF PageInv, TypeOK, Poll, Over, page, user, posts
<1>4. Merged' /\ Shown' /\ Complete'
  BY <1>1 DEF PageInv, Merged, Shown, Complete, Over, page
<1> QED
  BY <1>2, <1>3, <1>4 DEF PageInv

LEMMA SelectKeeps == PageInv /\ (Select \/ Deselect) => PageInv'
<1> SUFFICES ASSUME PageInv, Select \/ Deselect PROVE PageInv'
  OBVIOUS
<1>1. UNCHANGED <<boot, count, polls, statusFetchInFlight, page, commands>>
  BY DEF Select, Deselect
<1>2. selecting' \in BOOLEAN /\ selections' \in 0 .. MaxSelections
  <2>1. selecting' \in BOOLEAN
    BY DEF Select, Deselect
  <2>2. selections' \in 0 .. MaxSelections
    BY PageAssumption DEF PageInv, TypeOK, Select, Deselect
  <2> QED
    BY <2>1, <2>2
<1>3. TypeOK'
  BY <1>1, <1>2 DEF PageInv, TypeOK, page, commands, posts
<1>4. /\ OnePoll' /\ Answers' /\ Merged' /\ Shown' /\ Complete' /\ Commands' /\ GivenUp'
  BY <1>1 DEF PageInv, OnePoll, Answers, Merged, Shown, Complete, Commands, GivenUp, HasRun, page,
              commands, posts
<1> QED
  BY <1>3, <1>4 DEF PageInv
-------------------------------------------------------------------------------
(* The chain of posts. *)

\* What the chain's steps leave alone.
LEMMA SendingLeaves ==
  ASSUME PageInv, UNCHANGED <<boot, count, page>>
  PROVE  Merged' /\ Shown' /\ Complete'
  BY DEF PageInv, Merged, Shown, Complete, page

\* And what they leave of the polls, as long as the chain waits for none.
LEMMA SendingLeavesPolls ==
  ASSUME PageInv, UNCHANGED <<boot, count, polls, statusFetchInFlight, page>>,
         sending = "await" => sending' = "await"
  PROVE  OnePoll' /\ Answers'
  BY DEF PageInv, OnePoll, Answers, page

LEMMA ClickKeeps == PageInv /\ Click => PageInv'
<1> SUFFICES ASSUME PageInv, Click PROVE PageInv'
  OBVIOUS
<1>1. /\ UNCHANGED <<boot, count, polls, statusFetchInFlight, user, page>>
      /\ UNCHANGED <<sending, ran, late, executed, abandoned>>
      /\ clicks' = clicks + 1 /\ chain' = Append(chain, clicks + 1) /\ clicks < MaxClicks
  BY DEF Click, posts
<1>2. /\ chain \in Seq(1 .. MaxClicks) /\ clicks \in Nat /\ clicks + 1 \in 1 .. MaxClicks
      /\ executed \in Seq(1 .. MaxClicks)
  BY <1>1, PageAssumption DEF PageInv, TypeOK
<1>3. /\ chain' \in Seq(1 .. MaxClicks) /\ chain' # <<>> /\ Len(chain') = Len(chain) + 1
      /\ \A i \in 1 .. Len(chain) : chain'[i] = chain[i]
      /\ chain'[Len(chain) + 1] = clicks + 1
      /\ DOMAIN chain' = 1 .. Len(chain) + 1 /\ DOMAIN chain = 1 .. Len(chain)
      /\ Len(chain) \in Nat
  BY <1>1, <1>2, AppendProperties, LenProperties
<1>4. TypeOK'
  BY <1>1, <1>2, <1>3 DEF PageInv, TypeOK, page, user
<1>5. \A i \in DOMAIN chain : chain[i] \in Nat /\ chain[i] <= clicks
  <2>1. \A i \in DOMAIN chain : chain[i] \in 1 .. MaxClicks
    BY <1>2, <1>3, ElementOfSeq
  <2> QED
    BY <2>1, PageAssumption DEF PageInv, Commands
<1>6. \A i \in DOMAIN executed : executed[i] \in Nat /\ executed[i] <= clicks
  <2>1. \A i \in DOMAIN executed : executed[i] \in 1 .. MaxClicks
    <3>1. DOMAIN executed = 1 .. Len(executed)
      BY <1>2, LenProperties
    <3> QED
      BY <1>2, <3>1, ElementOfSeq
  <2> QED
    BY <2>1, PageAssumption DEF PageInv, Commands
<1>7. \A i, j \in DOMAIN chain' : i < j => chain'[i] < chain'[j]
  <2> SUFFICES ASSUME NEW i \in DOMAIN chain', NEW j \in DOMAIN chain', i < j
               PROVE  chain'[i] < chain'[j]
    OBVIOUS
  <2>1. i \in DOMAIN chain
    BY <1>3
  <2>2. CASE j \in DOMAIN chain
    BY <1>3, <2>1, <2>2 DEF PageInv, Commands
  <2>3. CASE j = Len(chain) + 1
    BY <1>2, <1>3, <1>5, <2>1, <2>3
  <2> QED
    BY <1>3, <2>2, <2>3
<1>8. \A i \in DOMAIN chain' : chain'[i] <= clicks'
  <2> SUFFICES ASSUME NEW i \in DOMAIN chain' PROVE chain'[i] <= clicks'
    OBVIOUS
  <2>1. CASE i \in DOMAIN chain
    BY <1>1, <1>2, <1>3, <1>5, <2>1
  <2>2. CASE i = Len(chain) + 1
    BY <1>1, <1>2, <1>3, <2>2
  <2> QED
    BY <1>3, <2>1, <2>2
<1>9. \A i \in DOMAIN executed, j \in DOMAIN chain' :
          executed[i] < chain'[j] \/ (HasRun /\ j = 1 /\ executed[i] = chain'[1])
  <2> SUFFICES ASSUME NEW i \in DOMAIN executed, NEW j \in DOMAIN chain'
               PROVE  executed[i] < chain'[j] \/ (HasRun /\ j = 1 /\ executed[i] = chain'[1])
    OBVIOUS
  <2>1. CASE j \in DOMAIN chain
    BY <1>3, <2>1 DEF PageInv, Commands
  <2>2. CASE j = Len(chain) + 1
    BY <1>2, <1>3, <1>6, <2>2
  <2> QED
    BY <1>3, <2>1, <2>2
<1>10. \A i \in DOMAIN executed : executed[i] <= clicks'
  BY <1>1, <1>2, <1>6
<1>11. Commands'
  BY <1>1, <1>3, <1>7, <1>8, <1>9, <1>10 DEF PageInv, Commands, HasRun
<1>12. \A c \in abandoned : c \in Nat /\ c <= clicks
  <2>1. \A c \in abandoned : c \in 1 .. MaxClicks
    BY DEF PageInv, TypeOK
  <2> QED
    BY <2>1, PageAssumption DEF PageInv, GivenUp
<1>13. \A c \in abandoned : \A j \in DOMAIN chain' : c < chain'[j]
  <2> SUFFICES ASSUME NEW c \in abandoned, NEW j \in DOMAIN chain' PROVE c < chain'[j]
    OBVIOUS
  <2>1. CASE j \in DOMAIN chain
    BY <1>3, <2>1 DEF PageInv, GivenUp
  <2>2. CASE j = Len(chain) + 1
    BY <1>2, <1>3, <1>12, <2>2
  <2> QED
    BY <1>3, <2>1, <2>2
<1>14. \A c \in abandoned : c <= clicks'
  BY <1>1, <1>2, <1>12
<1>15. GivenUp'
  BY <1>1, <1>13, <1>14 DEF PageInv, GivenUp
<1> QED
  BY <1>1, <1>4, <1>11, <1>15, SendingLeaves, SendingLeavesPolls DEF PageInv

LEMMA PostKeeps == PageInv /\ Post => PageInv'
<1> SUFFICES ASSUME PageInv, Post PROVE PageInv'
  OBVIOUS
<1>1. /\ UNCHANGED <<boot, count, polls, statusFetchInFlight, user, page>>
      /\ UNCHANGED <<clicks, chain, late, executed, abandoned>>
      /\ sending = "idle" /\ sending' = "post" /\ ran' = FALSE /\ chain # <<>>
  BY DEF Post, posts
<1>2. TypeOK'
  BY <1>1 DEF PageInv, TypeOK, page, user
<1>3. Commands' /\ GivenUp'
  BY <1>1 DEF PageInv, Commands, GivenUp, HasRun
<1> QED
  BY <1>1, <1>2, <1>3, SendingLeaves, SendingLeavesPolls DEF PageInv

\* A command that was not executed is, in its turn or as one that was given up.
LEMMA Executes ==
  ASSUME PageInv, NEW c \in 1 .. MaxClicks, executed' = Append(executed, c), c <= clicks,
         \A i \in DOMAIN executed : executed[i] # c,
         (\A i \in DOMAIN executed : executed[i] < c) \/ c \in abandoned,
         UNCHANGED <<clicks, abandoned>>
  PROVE  /\ executed' \in Seq(1 .. MaxClicks)
         /\ \A i \in DOMAIN executed' : executed'[i] <= clicks
         /\ \A i, j \in DOMAIN executed' : i < j =>
               /\ executed'[i] # executed'[j]
               /\ executed'[i] < executed'[j] \/ executed'[j] \in abandoned
         /\ \A i \in DOMAIN executed' : executed'[i] = c
               \/ (i \in DOMAIN executed /\ executed'[i] = executed[i])
<1>1. executed \in Seq(1 .. MaxClicks)
  BY DEF PageInv, TypeOK
<1>2. /\ executed' \in Seq(1 .. MaxClicks)
      /\ \A i \in 1 .. Len(executed) : executed'[i] = executed[i]
      /\ executed'[Len(executed) + 1] = c
      /\ DOMAIN executed' = 1 .. Len(executed) + 1 /\ DOMAIN executed = 1 .. Len(executed)
      /\ Len(executed) \in Nat
  BY <1>1, AppendProperties, LenProperties
<1>3. /\ \A i, j \in DOMAIN executed : i < j =>
            executed[i] # executed[j] /\ (executed[i] < executed[j] \/ executed[j] \in abandoned)
      /\ \A i \in DOMAIN executed : executed[i] <= clicks
  BY DEF PageInv, Commands
<1>4. \A i \in DOMAIN executed' :
         \/ i = Len(executed) + 1 /\ executed'[i] = c
         \/ i \in DOMAIN executed /\ executed'[i] = executed[i]
  BY <1>2
<1>5. ASSUME NEW i \in DOMAIN executed', NEW j \in DOMAIN executed', i < j
      PROVE  /\ executed'[i] # executed'[j]
             /\ executed'[i] < executed'[j] \/ executed'[j] \in abandoned
  <2>1. i \in DOMAIN executed /\ executed'[i] = executed[i]
    BY <1>2, <1>5
  <2>2. CASE j \in DOMAIN executed /\ executed'[j] = executed[j]
    BY <1>3, <1>5, <2>1, <2>2
  <2>3. CASE executed'[j] = c
    BY <2>1, <2>3
  <2> QED
    BY <1>4, <2>2, <2>3
<1> QED
  BY <1>2, <1>3, <1>4, <1>5

\* The POST at the head of the chain.
LEMMA HeadOfChain ==
  ASSUME PageInv, sending = "post"
  PROVE  /\ chain # <<>> /\ chain \in Seq(1 .. MaxClicks)
         /\ Head(chain) = chain[1] /\ chain[1] \in 1 .. MaxClicks /\ chain[1] <= clicks
         /\ 1 \in DOMAIN chain /\ DOMAIN chain = 1 .. Len(chain) /\ Len(chain) \in Nat
<1>1. chain \in Seq(1 .. MaxClicks) /\ chain # <<>>
  BY DEF PageInv, TypeOK, Commands
<1>2. Len(chain) \in Nat /\ DOMAIN chain = 1 .. Len(chain) /\ Len(chain) # 0
  BY <1>1, LenProperties, EmptySeq
<1>3. 1 \in DOMAIN chain
  BY <1>2
<1>4. chain[1] \in 1 .. MaxClicks
  BY <1>1, <1>2, <1>3, ElementOfSeq
<1>5. Head(chain) = chain[1]
  BY <1>1
<1>6. chain[1] <= clicks
  BY <1>3 DEF PageInv, Commands
<1> QED
  BY <1>1, <1>2, <1>3, <1>4, <1>5, <1>6

LEMMA RunKeeps == PageInv /\ Run => PageInv'
<1> SUFFICES ASSUME PageInv, Run PROVE PageInv'
  OBVIOUS
<1>1. /\ UNCHANGED <<boot, count, polls, statusFetchInFlight, user, page>>
      /\ UNCHANGED <<clicks, chain, sending, late, abandoned>>
      /\ sending = "post" /\ ran = FALSE /\ ran' = TRUE
      /\ executed' = Append(executed, Head(chain))
  BY DEF PageInv, TypeOK, Run
<1> DEFINE c == chain[1]
<1>2. /\ Head(chain) = c /\ c \in 1 .. MaxClicks /\ c <= clicks /\ chain # <<>>
      /\ 1 \in DOMAIN chain /\ DOMAIN chain = 1 .. Len(chain) /\ Len(chain) \in Nat
  BY <1>1, HeadOfChain
<1>3. /\ \A i \in DOMAIN executed, j \in DOMAIN chain : executed[i] < chain[j]
      /\ \A i, j \in DOMAIN chain : i < j => chain[i] < chain[j]
  BY <1>1 DEF PageInv, Commands, HasRun
<1>4. \A i \in DOMAIN executed : executed[i] < c
  BY <1>2, <1>3
<1>5. \A i \in DOMAIN executed : executed[i] # c
  BY <1>2, <1>4
<1> HIDE DEF c
<1>6. /\ executed' \in Seq(1 .. MaxClicks)
      /\ \A i \in DOMAIN executed' : executed'[i] <= clicks
      /\ \A i, j \in DOMAIN executed' : i < j =>
            /\ executed'[i] # executed'[j]
            /\ executed'[i] < executed'[j] \/ executed'[j] \in abandoned
      /\ \A i \in DOMAIN executed' : executed'[i] = c
            \/ (i \in DOMAIN executed /\ executed'[i] = executed[i])
  BY <1>1, <1>2, <1>4, <1>5, Executes
<1>7. TypeOK'
  BY <1>1, <1>6 DEF PageInv, TypeOK, page, user
<1>8. \A i \in DOMAIN executed', j \in DOMAIN chain :
          executed'[i] < chain[j] \/ (j = 1 /\ executed'[i] = chain[1])
  <2> SUFFICES ASSUME NEW i \in DOMAIN executed', NEW j \in DOMAIN chain
               PROVE  executed'[i] < chain[j] \/ (j = 1 /\ executed'[i] = chain[1])
    OBVIOUS
  <2>1. CASE i \in DOMAIN executed /\ executed'[i] = executed[i]
    BY <1>3, <2>1
  <2>2. CASE executed'[i] = c
    <3>1. CASE j = 1
      BY <2>2, <3>1 DEF c
    <3>2. CASE j # 1
      <4>1. 1 < j
        BY <1>2, <3>2
      <4> QED
        BY <1>2, <1>3, <2>2, <4>1 DEF c
    <3> QED
      BY <3>1, <3>2
  <2> QED
    BY <1>6, <2>1, <2>2
<1>9. Commands'
  BY <1>1, <1>2, <1>6, <1>8 DEF PageInv, Commands, HasRun
\* What was given up is behind the head of the chain, so it is not what is executed.
<1>10. \A d \in late : d # c
  <2>1. \A d \in abandoned : d \in 1 .. MaxClicks /\ d < c
    BY <1>2 DEF PageInv, TypeOK, GivenUp, c
  <2>2. \A d \in abandoned : d # c
    BY <1>2, <2>1
  <2> QED
    BY <2>2 DEF PageInv, TypeOK
<1>11. \A d \in late : \A i \in DOMAIN executed' : executed'[i] # d
  BY <1>6, <1>10 DEF PageInv, GivenUp
<1>12. GivenUp'
  BY <1>1, <1>11 DEF PageInv, GivenUp
<1> QED
  BY <1>1, <1>7, <1>9, <1>12, SendingLeaves, SendingLeavesPolls DEF PageInv

\* What was given up arrives after all.
LEMMA RunLateKeeps == ASSUME PageInv, NEW c \in 1 .. MaxClicks, RunLate(c) PROVE PageInv'
<1>1. /\ UNCHANGED <<boot, count, polls, statusFetchInFlight, user, page>>
      /\ UNCHANGED <<clicks, chain, sending, ran, abandoned>>
      /\ c \in late /\ late' = late \ {c} /\ executed' = Append(executed, c)
  BY DEF RunLate
<1>2. c \in abandoned /\ c <= clicks /\ \A i \in DOMAIN executed : executed[i] # c
  BY <1>1 DEF PageInv, TypeOK, GivenUp
<1>3. /\ executed' \in Seq(1 .. MaxClicks)
      /\ \A i \in DOMAIN executed' : executed'[i] <= clicks
      /\ \A i, j \in DOMAIN executed' : i < j =>
            /\ executed'[i] # executed'[j]
            /\ executed'[i] < executed'[j] \/ executed'[j] \in abandoned
      /\ \A i \in DOMAIN executed' : executed'[i] = c
            \/ (i \in DOMAIN executed /\ executed'[i] = executed[i])
  BY <1>1, <1>2, Executes
<1>4. TypeOK'
  BY <1>1, <1>3 DEF PageInv, TypeOK, page, user
<1>5. \A i \in DOMAIN executed', j \in DOMAIN chain :
          executed'[i] < chain[j] \/ (HasRun /\ j = 1 /\ executed'[i] = chain[1])
  BY <1>2, <1>3 DEF PageInv, Commands, GivenUp
<1>6. Commands'
  BY <1>1, <1>3, <1>5 DEF PageInv, Commands, HasRun
<1>7. \A d \in late' : \A i \in DOMAIN executed' : executed'[i] # d
  BY <1>1, <1>3 DEF PageInv, GivenUp
<1>8. GivenUp'
  BY <1>1, <1>7 DEF PageInv, GivenUp
<1> QED
  BY <1>1, <1>4, <1>6, <1>8, SendingLeaves, SendingLeavesPolls DEF PageInv

\* The head of the chain has been posted, with or without an answer; without one it may have been
\* given up before it was run.
LEMMA PostedKeeps == PageInv /\ (Answered \/ PostFails) => PageInv'
<1> SUFFICES ASSUME PageInv, Answered \/ PostFails PROVE PageInv'
  OBVIOUS
<1> DEFINE unrun == IF PostFails /\ ~ran THEN {Head(chain)} ELSE {}
<1>1. /\ UNCHANGED <<boot, count, polls, statusFetchInFlight, user, page>>
      /\ UNCHANGED <<clicks, ran, executed>>
      /\ sending = "post" /\ sending' \in {"refresh", "idle"} /\ chain' = Tail(chain)
  BY DEF Answered, PostFails, AfterFailure, GiveUp, posts
<1>2. late' = late \cup unrun /\ abandoned' = abandoned \cup unrun
  <2>1. CASE PostFails
    BY <2>1 DEF PostFails
  <2>2. CASE ~PostFails
    BY <2>2 DEF Answered, posts
  <2> QED
    BY <2>1, <2>2
<1>3. /\ chain # <<>> /\ chain \in Seq(1 .. MaxClicks)
      /\ Head(chain) = chain[1] /\ chain[1] \in 1 .. MaxClicks /\ chain[1] <= clicks
      /\ 1 \in DOMAIN chain
  BY <1>1, HeadOfChain
<1>4. /\ chain' \in Seq(1 .. MaxClicks) /\ Len(chain) \in Nat
      /\ DOMAIN chain = 1 .. Len(chain) /\ DOMAIN chain' = 1 .. Len(chain) - 1
      /\ \A i \in DOMAIN chain' : chain'[i] = chain[i + 1]
  BY <1>1, <1>3, HeadTailProperties, LenProperties
<1>5. unrun \subseteq 1 .. MaxClicks /\ \A d \in unrun : d = chain[1] /\ ~ran
  BY <1>3
<1> HIDE DEF unrun
<1>6. TypeOK'
  <2>1. late' \subseteq abandoned' /\ abandoned' \subseteq 1 .. MaxClicks
    BY <1>2, <1>5 DEF PageInv, TypeOK
  <2> QED
    BY <1>1, <1>4, <2>1 DEF PageInv, TypeOK, page, user
<1>7. \A i \in DOMAIN chain' : i \in Nat /\ i + 1 \in DOMAIN chain /\ i + 1 # 1 /\ 1 < i + 1
  BY <1>4
<1>8. \A i, j \in DOMAIN chain' : i < j => i + 1 < j + 1
  BY <1>7
<1>9. \A i \in DOMAIN executed : executed[i] \in abandoned => executed[i] \in abandoned'
  BY <1>2
<1>10. Commands'
  BY <1>1, <1>4, <1>7, <1>8, <1>9 DEF PageInv, Commands, HasRun
<1>11. GivenUp'
  <2>1. \A d \in unrun : d <= clicks
    BY <1>3, <1>5
  <2>2. \A d \in unrun : \A j \in DOMAIN chain' : d < chain'[j]
    BY <1>3, <1>4, <1>5, <1>7 DEF PageInv, Commands
  <2>3. \A d \in unrun : \A i \in DOMAIN executed : executed[i] # d
    <3>1. ASSUME NEW d \in unrun, NEW i \in DOMAIN executed PROVE executed[i] # d
      <4>1. d = chain[1] /\ ~HasRun
        BY <1>5, <3>1 DEF HasRun
      <4>2. executed[i] < chain[1]
        BY <1>3, <4>1 DEF PageInv, Commands
      <4> QED
        BY <1>3, <4>1, <4>2
    <3> QED
      BY <3>1
  <2>4. \A d \in abandoned : \A j \in DOMAIN chain' : d < chain'[j]
    BY <1>4, <1>7 DEF PageInv, GivenUp
  <2> QED
    BY <1>1, <1>2, <2>1, <2>2, <2>3, <2>4 DEF PageInv, GivenUp
<1> QED
  BY <1>1, <1>6, <1>10, <1>11, SendingLeaves, SendingLeavesPolls DEF PageInv

LEMMA ChainPollKeeps == PageInv /\ ChainPoll => PageInv'
<1> SUFFICES ASSUME PageInv, ChainPoll PROVE PageInv'
  OBVIOUS
<1>1. /\ UNCHANGED <<boot, count, user, page, clicks, chain, ran, late, executed, abandoned>>
      /\ sending = "refresh" /\ sending' \in {"await", "idle"}
  BY DEF ChainPoll, posts
<1>2. polls' \in [Polls -> Poll] /\ statusFetchInFlight' \in BOOLEAN /\ OnePoll' /\ Answers'
  <2>1. CASE MayPoll
    BY <2>1, FetchKeeps DEF ChainPoll
  <2>2. CASE ~MayPoll
    <3>1. UNCHANGED <<polls, statusFetchInFlight>>
      BY <2>2 DEF ChainPoll
    <3> QED
      BY <1>1, <3>1, SendingLeavesPolls DEF PageInv, TypeOK, Poll
  <2> QED
    BY <2>1, <2>2
<1>3. TypeOK'
  BY <1>1, <1>2 DEF PageInv, TypeOK, Poll, page, user
<1>4. Commands' /\ GivenUp'
  BY <1>1 DEF PageInv, Commands, GivenUp, HasRun
<1> QED
  BY <1>1, <1>2, <1>3, <1>4, SendingLeaves DEF PageInv
-------------------------------------------------------------------------------
(* The merging of an answer. *)

\* The scrollback keeps the newest lines, as many as it may.
LEMMA NewestIsTail ==
  ASSUME NEW S, NEW s \in Seq(S)
  PROVE  /\ Newest(s) \in Seq(S) /\ Len(Newest(s)) \in Nat
         /\ Len(Newest(s)) <= SCROLLBACK /\ Len(Newest(s)) <= Len(s)
         /\ Len(Newest(s)) = Len(s) \/ Len(Newest(s)) = SCROLLBACK
         /\ \A i \in 1 .. Len(Newest(s)) : Newest(s)[i] = s[i + (Len(s) - Len(Newest(s)))]
<1>1. Len(s) \in Nat /\ SCROLLBACK \in Nat
  BY LenProperties, PageAssumption
<1>2. CASE Len(s) > SCROLLBACK
  <2> DEFINE m == Len(s) - SCROLLBACK + 1
             r == SubSeq(s, m, Len(s))
  <2>1. /\ m \in Int /\ m >= 1 /\ m <= Len(s) /\ m <= Len(s) + 1
        /\ Len(s) - m + 1 = SCROLLBACK /\ Len(s) \in m - 1 .. Len(s)
        /\ m \in 1 .. Len(s) + 1
    BY <1>1, <1>2, PageAssumption
  <2>2. \A i \in m .. Len(s) : s[i] \in S
    BY <1>1, <2>1, ElementOfSeq
  <2>3. Newest(s) = r
    BY <1>2 DEF Newest
  <2> HIDE DEF m
  <2>4. r \in Seq(S) /\ Len(r) = SCROLLBACK
    BY <1>1, <2>1, <2>2, SubSeqProperties
  <2>5. \A i \in 1 .. SCROLLBACK : r[i] = s[m + i - 1]
    BY <1>1, <2>1, <2>2, SubSeqProperties
  <2>6. \A i \in 1 .. SCROLLBACK : m + i - 1 = i + (Len(s) - SCROLLBACK)
    BY <1>1 DEF m
  <2> HIDE DEF r
  <2> QED
    BY <1>1, <1>2, <2>3, <2>4, <2>5, <2>6
<1>3. CASE ~(Len(s) > SCROLLBACK)
  <2>1. Newest(s) = s
    BY <1>3 DEF Newest
  <2>2. \A i \in 1 .. Len(s) : i + (Len(s) - Len(s)) = i
    BY <1>1
  <2> QED
    BY <1>1, <1>3, <2>1, <2>2
<1> QED
  BY <1>2, <1>3

\* An answer that is merged goes on behind the last line and in the same scrollback, or starts
\* over.
MergeLast(p) == IF polls[p].upto < filteredLastSeq THEN 0 ELSE filteredLastSeq
MergeBase(p) == IF polls[p].upto < filteredLastSeq THEN <<>> ELSE filteredBuffer
MergeNew(p) == Lines(polls[p].boot, From(p, MergeLast(p)), polls[p].upto)

\* What merging does to the page, without LET.
LEMMA MergeIs ==
  ASSUME PageInv, NEW p \in Polls, polls[p].at = "answer", Merge(p), polls[p].upto # 0
  PROVE  /\ filteredBuffer' = Newest(MergeBase(p) \o MergeNew(p))
         /\ filteredLastSeq' = polls[p].upto
         /\ merged' = polls[p].boot
         /\ filteredBuffer' \in Seq(Line) /\ Len(filteredBuffer') <= SCROLLBACK
         /\ restarts' = restarts + IF polls[p].upto < filteredLastSeq THEN 1 ELSE 0
         /\ MergeBase(p) \in Seq(Line) /\ MergeNew(p) \in Seq(Line)
<1> DEFINE u == polls[p].upto
           b == polls[p].boot
           over == u < filteredLastSeq
           last == MergeLast(p)
           new == NewLines(p, last)
           lo == From(p, last)
<1>1. /\ u \in Nat /\ u > 0 /\ u <= MaxLines /\ b \in 1 .. MaxBoots
      /\ filteredLastSeq \in Nat /\ boot \in 1 .. MaxBoots
  BY PageAssumption DEF PageInv, TypeOK, Answers
<1>2. last \in Nat /\ last <= u
  BY <1>1 DEF MergeLast
<1>3. /\ lo \in Nat /\ lo >= 1 /\ lo <= u + 1 /\ new = Lines(b, lo, u)
      /\ (new = <<>>) <=> last = u
  <2> HIDE DEF last
  <2> QED
    BY <1>1, <1>2, NewLinesAre DEF last
<1>4. /\ filteredBuffer' = Newest((IF over THEN <<>> ELSE filteredBuffer) \o new)
      /\ filteredLastSeq' = IF new = <<>> THEN last ELSE u
      /\ restarts' = restarts + (IF over THEN 1 ELSE 0)
      /\ merged' = b
  BY DEF Merge, MergeLast
<1>5. Lines(b, lo, u) \in Seq(Line)
  <2> HIDE DEF lo, u, b
  <2>1. u + 1 - lo \in Nat
    BY <1>1, <1>3
  <2>2. \A i \in 1 .. u + 1 - lo : [boot |-> b, seq |-> lo + i - 1] \in Line
    BY <1>1, <1>3, PageAssumption DEF Line
  <2> QED
    BY <2>1, <2>2, IsASeq DEF Lines
<1>6. MergeBase(p) \in Seq(Line) /\ MergeNew(p) \in Seq(Line)
  BY <1>5 DEF PageInv, TypeOK, MergeBase, MergeNew
<1>7. filteredBuffer' = Newest(MergeBase(p) \o MergeNew(p))
  BY <1>3, <1>4 DEF MergeBase, MergeNew
<1>8. filteredBuffer' \in Seq(Line) /\ Len(filteredBuffer') <= SCROLLBACK
  <2>1. MergeBase(p) \o MergeNew(p) \in Seq(Line)
    BY <1>6, ConcatProperties
  <2> QED
    BY <1>7, <2>1, NewestIsTail
<1> QED
  BY <1>3, <1>4, <1>6, <1>7, <1>8

\* What a merge adds comes behind all that is shown, and the page notices a reboot at most once.
LEMMA MergeKeeps ==
  ASSUME PageInv, NEW p \in Polls, polls[p].at = "answer", Merge(p), polls[p].upto # 0,
         UNCHANGED <<boot, count>>
  PROVE  Merged' /\ Shown' /\ Complete'
<1> DEFINE u == polls[p].upto
           b == polls[p].boot
           over == u < filteredLastSeq
           last == MergeLast(p)
           lo == From(p, last)
           base == MergeBase(p)
           new == MergeNew(p)
           all == base \o new
           n == Len(base)
           c == u + 1 - lo
           len == Len(filteredBuffer')
<1>1. /\ u \in Nat /\ u > 0 /\ b \in Nat /\ b >= 1 /\ b <= boot /\ boot \in Nat
      /\ filteredLastSeq \in Nat /\ merged \in Nat /\ restarts \in Nat /\ merged <= b
      /\ b = merged => filteredLastSeq <= u
      /\ b = boot => u <= count
      /\ merged = 0 => filteredLastSeq = 0 /\ restarts = 0
      /\ merged # 0 => restarts < merged
      /\ WINDOW \in Nat /\ WINDOW > 0 /\ SCROLLBACK \in Nat /\ WINDOW <= SCROLLBACK
  BY PageAssumption, SMTT(30) DEF PageInv, TypeOK, Answers, Merged
<1>2. /\ last \in Nat /\ last <= u /\ last \in {0, filteredLastSeq}
      /\ b = merged => last = filteredLastSeq
      /\ ~over => last = filteredLastSeq
      /\ over => last = 0
  BY <1>1 DEF MergeLast
<1>3. /\ First(p) \in Nat /\ First(p) >= 1
      /\ lo \in Nat /\ lo >= First(p) /\ lo > last /\ lo <= u + 1
  <2> HIDE DEF last
  <2> QED
    BY <1>1, <1>2, NewLinesAre DEF last
<1>4. /\ filteredBuffer' = Newest(all) /\ filteredLastSeq' = u /\ merged' = b
      /\ base \in Seq(Line) /\ new \in Seq(Line)
      /\ restarts' = restarts + IF over THEN 1 ELSE 0
  BY MergeIs
<1>5. lo = First(p) \/ lo = last + 1
  BY DEF From
<1>6. \A s \in 1 .. u : u < s + WINDOW => First(p) <= s
  BY <1>1 DEF First
<1>7. c \in Nat /\ Len(new) = c /\ \A k \in 1 .. c : new[k] = [boot |-> b, seq |-> lo + k - 1]
  <2> HIDE DEF lo, u, b
  <2>1. u + 1 - lo \in Nat
    BY <1>1, <1>3
  <2>2. new = Lines(b, lo, u)
    BY DEF MergeNew, lo, u, b
  <2> HIDE DEF new
  <2> QED
    BY <2>1, <2>2 DEF Lines
<1> HIDE DEF new, lo, u, b, last, over, base
\* The scrollback before anything goes from it.
<1>8. /\ all \in Seq(Line) /\ n \in Nat /\ DOMAIN base = 1 .. n /\ Len(all) = n + c
      /\ \A i \in 1 .. n : all[i] = base[i]
      /\ \A k \in 1 .. c : all[n + k] = [boot |-> b, seq |-> lo + k - 1]
  <2>1. n \in Nat /\ DOMAIN base = 1 .. n
    BY <1>4, LenProperties
  <2>2. /\ all \in Seq(Line) /\ Len(all) = n + c
        /\ \A i \in 1 .. n + c : all[i] = IF i <= n THEN base[i] ELSE new[i - n]
    <3> HIDE DEF c
    <3>1. /\ all \in Seq(Line) /\ Len(all) = n + Len(new)
          /\ \A i \in 1 .. n + Len(new) : all[i] = IF i <= n THEN base[i] ELSE new[i - n]
      BY <1>4, ConcatProperties
    <3>2. Len(new) = c
      BY <1>7
    <3> QED
      BY <3>1, <3>2
  <2> HIDE DEF c, n, all
  <2>3. \A i \in 1 .. n : i \in 1 .. n + c /\ i <= n
    BY <1>7, <2>1
  <2>4. \A k \in 1 .. c : n + k \in 1 .. n + c /\ ~(n + k <= n) /\ (n + k) - n = k
    BY <1>7, <2>1
  <2>5. \A k \in 1 .. c : all[n + k] = new[k]
    BY <2>2, <2>4
  <2> QED
    BY <1>7, <2>1, <2>2, <2>3, <2>5
<1>9. /\ \A i \in 1 .. n :
            /\ base[i].boot \in Nat /\ base[i].seq \in Nat
            /\ base[i].boot <= merged
            /\ base[i].boot = merged => base[i].seq <= last
      /\ \A i, j \in 1 .. n : i < j => Before(base[i], base[j])
  <2>1. CASE over
    <3>1. n = 0
      BY <2>1 DEF base, MergeBase, over, u
    <3> QED
      BY <3>1
  <2>2. CASE ~over
    <3>1. base = filteredBuffer /\ last = filteredLastSeq
      BY <1>2, <2>2 DEF base, MergeBase, over, u
    <3>2. \A i \in 1 .. n : base[i] \in Line
      BY <1>4, <1>8, ElementOfSeq
    <3>3. \A l \in Line : l.boot \in Nat /\ l.seq \in Nat
      BY DEF Line
    <3> QED
      BY <1>8, <3>1, <3>2, <3>3 DEF PageInv, Shown
  <2> QED
    BY <2>1, <2>2
<1>10. Merged'
  <2>1. b = boot => u <= count
    BY <1>1
  <2>2. restarts' \in Nat
    BY <1>1, <1>4
  <2>3. restarts' < b
    <3>1. CASE over
      <4>1. merged # 0 /\ b # merged
        BY <1>1, <3>1 DEF over
      <4> QED
        BY <1>1, <1>4, <3>1, <4>1
    <3>2. CASE ~over
      BY <1>1, <1>4, <3>2
    <3> QED
      BY <3>1, <3>2
  <2> QED
    BY <1>1, <1>4, <2>1, <2>2, <2>3 DEF Merged
<1> HIDE DEF all, n, c
\* Every line is one that was there or a new one.
<1>11. \A i \in 1 .. n + c :
          \/ i \in 1 .. n /\ all[i] = base[i]
          \/ \E k \in 1 .. c : i = n + k /\ all[i].boot = b /\ all[i].seq = lo + k - 1
  <2> SUFFICES ASSUME NEW i \in 1 .. n + c, i \notin 1 .. n
               PROVE  \E k \in 1 .. c : i = n + k /\ all[i].boot = b /\ all[i].seq = lo + k - 1
    BY <1>8
  <2>1. i - n \in 1 .. c /\ n + (i - n) = i
    BY <1>7, <1>8
  <2>2. all[n + (i - n)] = [boot |-> b, seq |-> lo + (i - n) - 1]
    BY <1>8, <2>1
  <2> QED
    BY <2>1, <2>2
<1>12. \A k \in 1 .. c : lo + k - 1 \in Nat /\ lo + k - 1 > last /\ lo + k - 1 <= u
  BY <1>1, <1>2, <1>3, <1>7 DEF c
<1>13. \A i \in 1 .. n + c : all[i].boot <= b /\ (all[i].boot = b => all[i].seq <= u)
  <2> SUFFICES ASSUME NEW i \in 1 .. n + c
               PROVE  all[i].boot <= b /\ (all[i].boot = b => all[i].seq <= u)
    OBVIOUS
  <2>1. CASE i \in 1 .. n /\ all[i] = base[i]
    BY <1>1, <1>2, <1>9, <2>1
  <2>2. CASE \E k \in 1 .. c : i = n + k /\ all[i].boot = b /\ all[i].seq = lo + k - 1
    BY <1>1, <1>12, <2>2
  <2> QED
    BY <1>11, <2>1, <2>2
<1>14. ASSUME NEW i \in 1 .. n + c, NEW j \in 1 .. n + c, i < j
       PROVE  Before(all[i], all[j])
  <2>1. CASE j \in 1 .. n
    <3>1. i \in 1 .. n
      BY <1>8, <1>14, <2>1
    <3> QED
      BY <1>8, <1>9, <1>14, <2>1, <3>1
  <2>2. CASE j \notin 1 .. n
    <3>1. PICK k \in 1 .. c : j = n + k /\ all[j].boot = b /\ all[j].seq = lo + k - 1
      BY <1>11, <2>2
    <3>2. CASE i \in 1 .. n /\ all[i] = base[i]
      <4>1. all[i].boot \in Nat /\ all[i].boot <= merged
            /\ (all[i].boot = merged => all[i].seq <= last) /\ all[i].seq \in Nat
        BY <1>9, <3>2
      <4>2. all[i].boot < b \/ (all[i].boot = b /\ b = merged)
        BY <1>1, <4>1
      <4>3. all[i].boot = b => all[i].seq < lo + k - 1
        BY <1>2, <1>12, <4>1, <4>2
      <4> QED
        BY <3>1, <4>2, <4>3 DEF Before
    <3>3. CASE \E m \in 1 .. c : i = n + m /\ all[i].boot = b /\ all[i].seq = lo + m - 1
      <4>1. PICK m \in 1 .. c : i = n + m /\ all[i].boot = b /\ all[i].seq = lo + m - 1
        BY <3>3
      <4>2. lo + m - 1 < lo + k - 1
        BY <1>3, <1>7, <1>8, <1>14, <3>1, <4>1
      <4> QED
        BY <3>1, <4>1, <4>2 DEF Before
    <3> QED
      BY <1>11, <3>2, <3>3
  <2> QED
    BY <2>1, <2>2
\* What stays of it is its end.
<1>15. /\ len \in Nat /\ DOMAIN filteredBuffer' = 1 .. len /\ len <= n + c
       /\ len = n + c \/ len = SCROLLBACK
       /\ \A i \in 1 .. len : filteredBuffer'[i] = all[i + ((n + c) - len)]
  <2>1. /\ filteredBuffer' \in Seq(Line) /\ len \in Nat /\ len <= n + c
        /\ len = n + c \/ len = SCROLLBACK
        /\ \A i \in 1 .. len : filteredBuffer'[i] = all[i + ((n + c) - len)]
    <3> DEFINE m == Newest(all)
    <3>1. /\ m \in Seq(Line) /\ Len(m) \in Nat /\ Len(m) <= Len(all)
          /\ Len(m) = Len(all) \/ Len(m) = SCROLLBACK
          /\ \A i \in 1 .. Len(m) : m[i] = all[i + (Len(all) - Len(m))]
      BY <1>8, NewestIsTail
    <3>2. filteredBuffer' = m /\ Len(all) = n + c
      BY <1>4, <1>8
    <3> HIDE DEF m
    <3> QED
      BY <3>1, <3>2
  <2>2. DOMAIN filteredBuffer' = 1 .. len
    BY <2>1, LenProperties
  <2> QED
    BY <2>1, <2>2
<1> DEFINE cut == (n + c) - len
<1> HIDE DEF len
<1>16. \A i \in 1 .. len : i + cut \in 1 .. n + c
  BY <1>7, <1>8, <1>15
<1>17. \A i, j \in 1 .. len : i < j => i + cut < j + cut
  BY <1>7, <1>8, <1>15
<1>18. Shown'
  <2>1. \A i \in 1 .. len :
           filteredBuffer'[i].boot <= b
           /\ (filteredBuffer'[i].boot = b => filteredBuffer'[i].seq <= u)
    BY <1>13, <1>15, <1>16
  <2>2. \A i, j \in 1 .. len : i < j => Before(filteredBuffer'[i], filteredBuffer'[j])
    <3> HIDE DEF cut
    <3>1. ASSUME NEW i \in 1 .. len, NEW j \in 1 .. len, i < j
          PROVE  Before(filteredBuffer'[i], filteredBuffer'[j])
      <4>1. Before(all[i + cut], all[j + cut])
        BY <1>14, <1>16, <1>17, <3>1
      <4>2. filteredBuffer'[i] = all[i + cut] /\ filteredBuffer'[j] = all[j + cut]
        BY <1>15 DEF cut
      <4> QED
        BY <4>1, <4>2
    <3> QED
      BY <3>1
  <2> QED
    BY <1>4, <1>15, <2>1, <2>2 DEF Shown, Before
\* The newest of all of it are the window's, new or shown before.
<1>19. ASSUME restarts' = b - 1, NEW k \in 0 .. WINDOW - 1, k < u
       PROVE  k < n + c /\ all[(n + c) - k] = [boot |-> b, seq |-> u - k]
  <2>1. CASE k < c
    <3>1. c - k \in 1 .. c /\ n + (c - k) = (n + c) - k /\ lo + (c - k) - 1 = u - k
      BY <1>1, <1>3, <1>7, <1>8, <2>1 DEF c
    <3>2. all[n + (c - k)] = [boot |-> b, seq |-> lo + (c - k) - 1]
      BY <1>8, <3>1
    <3>3. k < n + c
      BY <1>7, <1>8, <2>1
    <3> QED
      BY <3>1, <3>2, <3>3
  <2>2. CASE ~(k < c)
    <3>1. u - k \in 1 .. u /\ u - k < lo /\ u < (u - k) + WINDOW
      BY <1>1, <1>3, <1>7, <1>19, <2>2 DEF c
    <3>2. lo = last + 1 /\ u - k <= last /\ last # 0
      BY <1>1, <1>2, <1>3, <1>5, <1>6, <3>1
    <3>3. ~over /\ last = filteredLastSeq /\ merged # 0
      BY <1>1, <1>2, <3>2
    <3>4. base = filteredBuffer
      BY <3>3 DEF base, MergeBase, over, u
    <3>5. restarts = b - 1
      BY <1>1, <1>4, <1>19, <3>3
    <3>6. b = merged /\ restarts = merged - 1
      BY <1>1, <3>3, <3>5
    <3>7. /\ k - c \in 0 .. WINDOW - 1 /\ k - c < filteredLastSeq
          /\ filteredLastSeq - (k - c) = u - k
      BY <1>1, <1>2, <1>3, <1>7, <1>19, <2>2, <3>1, <3>2, <3>3 DEF c
    <3>8. k - c < n /\ base[n - (k - c)] = [boot |-> b, seq |-> u - k]
      BY <3>4, <3>6, <3>7 DEF PageInv, Complete, n
    <3>9. n - (k - c) \in 1 .. n /\ n - (k - c) = (n + c) - k /\ k < n + c
      BY <1>7, <1>8, <2>2, <3>8
    <3> QED
      BY <1>8, <3>8, <3>9
  <2> QED
    BY <2>1, <2>2
<1>20. Complete'
  <2> SUFFICES ASSUME restarts' = b - 1, NEW k \in 0 .. WINDOW - 1, k < u
               PROVE  /\ k < len
                      /\ filteredBuffer'[len - k] = [boot |-> b, seq |-> u - k]
    BY <1>4 DEF Complete, len
  <2>1. k < n + c /\ all[(n + c) - k] = [boot |-> b, seq |-> u - k]
    BY <1>19
  <2>2. k < len
    BY <1>1, <1>7, <1>8, <1>15, <2>1
  <2>3. k \in Nat
    BY <1>1
  <2>4. \A x, y, z \in Nat : z < x => x - z \in 1 .. x /\ (x - z) + (y - x) = y - z
    OBVIOUS
  <2>5. len \in Nat /\ n + c \in Nat
    BY <1>7, <1>8, <1>15
  <2>6. len - k \in 1 .. len /\ (len - k) + ((n + c) - len) = (n + c) - k
    BY <2>2, <2>3, <2>4, <2>5
  <2> QED
    BY <1>15, <2>1, <2>2, <2>6
<1> QED
  BY <1>10, <1>18, <1>20

LEMMA PollMergedKeeps == ASSUME PageInv, NEW p \in Polls, PollMerged(p) PROVE PageInv'
<1>1. /\ polls[p].at = "answer" /\ Merge(p) /\ Over(p) /\ statusFetchInFlight' = FALSE
      /\ UNCHANGED <<boot, count, user, clicks, chain, ran, late, executed, abandoned>>
  BY DEF PollMerged, Over, posts
<1>2. /\ polls' \in [Polls -> Poll] /\ sending' \in {"idle", sending}
      /\ OnePoll' /\ Answers' /\ Commands' /\ GivenUp'
  BY <1>1, OverKeeps
<1>3. CASE polls[p].upto = 0
  <2>1. UNCHANGED page
    BY <1>1, <1>3 DEF Merge
  <2>2. TypeOK'
    BY <1>1, <1>2, <2>1 DEF PageInv, TypeOK, Poll, page, user
  <2>3. Merged' /\ Shown' /\ Complete'
    BY <1>1, <2>1 DEF PageInv, Merged, Shown, Complete, page
  <2> QED
    BY <1>2, <2>2, <2>3 DEF PageInv
<1>4. CASE polls[p].upto # 0
  <2>1. Merged' /\ Shown' /\ Complete'
    BY <1>1, <1>4, MergeKeeps
  <2>2. /\ filteredBuffer' \in Seq(Line) /\ Len(filteredBuffer') <= SCROLLBACK
        /\ filteredLastSeq' = polls[p].upto /\ merged' = polls[p].boot
    BY <1>1, <1>4, MergeIs
  <2>3. filteredLastSeq' \in 0 .. MaxLines /\ merged' \in 0 .. MaxBoots
    BY <2>2 DEF PageInv, TypeOK
  <2>4. TypeOK'
    BY <1>1, <1>2, <2>2, <2>3 DEF PageInv, TypeOK, Poll, user
  <2> QED
    BY <1>2, <2>1, <2>4 DEF PageInv
<1> QED
  BY <1>3, <1>4
-------------------------------------------------------------------------------
\* Every step keeps the invariant.
LEMMA PageInvStep == PageInv /\ [Next]_vars => PageInv'
<1> SUFFICES ASSUME PageInv, [Next]_vars PROVE PageInv'
  OBVIOUS
<1>1. CASE UNCHANGED vars
  <2>1. TypeOK'
    BY <1>1 DEF vars, page, user, commands, posts, PageInv, TypeOK
  <2>2. /\ OnePoll' /\ Answers' /\ Merged' /\ Shown' /\ Complete' /\ Commands' /\ GivenUp'
    BY <1>1 DEF vars, page, user, commands, posts, PageInv, OnePoll, Answers, Merged, Shown,
                Complete, Commands, GivenUp, HasRun
  <2> QED
    BY <2>1, <2>2 DEF PageInv
<1>2. CASE Polling
  BY <1>2, TimerPollKeeps, ServeKeeps, PollEndsKeeps, PollMergedKeeps DEF Polling
<1>3. CASE Sending
  BY <1>3, ClickKeeps, PostKeeps, RunKeeps, RunLateKeeps, PostedKeeps, ChainPollKeeps DEF Sending
<1> QED
  BY <1>1, <1>2, <1>3, LogKeeps, RebootKeeps, SelectKeeps DEF Next

\* The invariant holds in every reachable state.
LEMMA PageInvariant == Spec => []PageInv
  BY PageInvInit, PageInvStep, PTL DEF Spec
-------------------------------------------------------------------------------
\* The page starts its scrollback over fewer times than the board booted, as no answer overtakes
\* another.
THEOREM RestartsAreNoticedReboots == Spec => []RestartsAreReboots
<1>1. PageInv => RestartsAreReboots
  BY DEF PageInv, TypeOK, Merged, RestartsAreReboots
<1> QED
  BY <1>1, PageInvariant, PTL

\* The scrollback is in the order of the boots and of their lines, none of them twice, and keeps
\* its limit.
THEOREM LinesAreShownInOrder == Spec => []ShownInOrder
<1>1. PageInv => ShownInOrder
  BY DEF PageInv, Shown, Before, ShownInOrder
<1> QED
  BY <1>1, PageInvariant, PTL

\* A merge whose boot's predecessors were all noticed leaves every line of its window in the
\* scrollback.
THEOREM WindowIsShown == Spec => NewestAreShown
<1>1. ASSUME PageInv', PageInv, NEW p \in Polls, PollMerged(p), restarts' = polls[p].boot - 1,
             NEW s \in Window(p)
      PROVE  \E i \in DOMAIN filteredBuffer' :
                filteredBuffer'[i] = [boot |-> polls[p].boot, seq |-> s]
  <2> DEFINE u == polls[p].upto
             k == u - s
             len == Len(filteredBuffer')
  <2>1. polls[p].at = "answer" /\ Merge(p)
    BY <1>1 DEF PollMerged
  <2>2. u \in Nat /\ WINDOW \in Nat /\ WINDOW > 0
    BY <1>1, PageAssumption, SMTT(30) DEF PageInv, TypeOK
  <2>3. u # 0 /\ s \in 1 .. u /\ u < s + WINDOW
    BY <1>1, <2>2 DEF Window, First
  <2>4. filteredLastSeq' = u /\ merged' = polls[p].boot
    BY <1>1, <2>1, <2>3, MergeIs
  <2>5. len \in Nat /\ DOMAIN filteredBuffer' = 1 .. len
    BY <1>1, LenProperties DEF PageInv, TypeOK
  <2> HIDE DEF u, len
  <2>6. k \in 0 .. WINDOW - 1 /\ k < u /\ u - k = s
    BY <2>2, <2>3
  <2> HIDE DEF k
  <2>7. k < len /\ filteredBuffer'[len - k] = [boot |-> polls[p].boot, seq |-> u - k]
    BY <1>1, <2>4, <2>6 DEF PageInv, Complete, len
  <2>8. len - k \in 1 .. len
    BY <2>5, <2>6, <2>7
  <2> QED
    BY <2>5, <2>6, <2>7, <2>8
<1>2. PageInv /\ PageInv' =>
        [\A p \in Polls : PollMerged(p) /\ restarts' = polls[p].boot - 1
           => \A s \in Window(p) : \E i \in DOMAIN filteredBuffer' :
                  filteredBuffer'[i] = [boot |-> polls[p].boot, seq |-> s]]_vars
  BY <1>1
<1> QED
  BY <1>2, PageInvariant, PTL DEF NewestAreShown

\* The board is given no command twice, and none before an earlier one but where that one had
\* been given up before it was run.
THEOREM CommandsKeepTheirOrder == Spec => []CommandsInOrder
<1>1. PageInv => CommandsInOrder
  BY DEF PageInv, Commands, CommandsInOrder
<1> QED
  BY <1>1, PageInvariant, PTL
===============================================================================
