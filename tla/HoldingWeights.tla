---------------------------- MODULE HoldingWeights -----------------------------
(***************************************************************************)
(* The holdings of one portfolio and their weights.                        *)
(*                                                                         *)
(* A portfolio is created by its user, alone or by an upload.              *)
(* PortfolioService.add_holding inserts a holding with weight 0 and then   *)
(* recalculates: it reads all holdings, commits the portfolio's total, and *)
(* commits the weights row by row.  An upload calls it once for each       *)
(* holding, in one session.  Calls of different sessions interleave        *)
(* between the commits, and a call may die between two of them.  A call    *)
(* is refused before its first write or not at all - a portfolio that is   *)
(* missing or another user's, a negative quantity or price, an upload with *)
(* a ticker twice or without a price - and is no step then.                *)
(*                                                                         *)
(* market_value never changes after the insert, so a weight is represented *)
(* by the total it was computed from, its "base": weight = value / base,   *)
(* and 0 if the base is 0.                                                 *)
(***************************************************************************)
EXTENDS Sums, Integers, Sequences, FiniteSets

CONSTANTS
    Clients, \* sessions: POST /portfolios, uploads, and added holdings
    User,    \* [client -> the user it acts for]
    NoUser,  \* owner of the portfolio that does not exist yet
    Creators, \* the clients that create the portfolio, with the holdings of Batch
    Batch,   \* [client -> the values of the holdings it adds, in order]
    MaxActive \* bound: how many of them at a time

ASSUME UserAssumption == \A c \in Clients : User[c] # NoUser
ASSUME CreatorsAssumption == Creators \subseteq Clients
ASSUME BatchAssumption ==
    \A c \in Clients : Batch[c] \in Seq(Nat) /\ (Len(Batch[c]) > 0 \/ c \in Creators)
ASSUME MaxActiveAssumption == MaxActive \in Nat

\* The holdings that may come to exist, and their market values.
Holdings == UNION {{<<c, i>> : i \in DOMAIN Batch[c]} : c \in Clients}
Value(h) == Batch[h[1]][h[2]]
Values == [h \in Holdings |-> Value(h)]
Sum(H) == Total(Values, H)

VARIABLES
    owner,  \* portfolios.user_id
    rows,   \* holdings that exist
    base,   \* their weights
    total,  \* portfolios.total_value
    pc,     \* where each client is in add_holding
    i,      \* which of its holdings it is adding
    known,  \* bases in its session; -1 for a row it has not loaded
    knownTotal, \* and the total, -1 before it is loaded
    sum,    \* total_value of _recalculate_weights
    todo,   \* holdings whose weights it has still to commit
    alone,  \* clients that have overlapped with no other (history)
    trusted \* the last client to end was alone and did not die (history)

vars == <<owner, rows, base, total, pc, i, known, knownTotal, sum, todo, alone, trusted>>

Bases == {Sum(H) : H \in SUBSET Holdings}

TypeOK == LET bases == Bases IN
    /\ owner \in {NoUser} \cup {User[c] : c \in Clients}
    /\ rows \subseteq {h \in Holdings : User[h[1]] = owner}
    /\ base \in [Holdings -> bases]
    /\ total \in bases
    /\ pc \in [Clients -> {"new", "insert", "read", "total", "weights", "done", "dead"}]
    /\ i \in [Clients -> Nat \ {0}]
    /\ known \in [Clients -> [Holdings -> bases \cup {-1}]]
    /\ knownTotal \in [Clients -> bases \cup {-1}]
    /\ sum \in [Clients -> bases]
    /\ todo \in [Clients -> SUBSET rows]
    /\ alone \subseteq Clients
    /\ trusted \in BOOLEAN

Init ==
    /\ owner = NoUser
    /\ rows = {}
    /\ base = [h \in Holdings |-> 0]
    /\ total = 0
    /\ pc = [c \in Clients |-> "new"]
    /\ i = [c \in Clients |-> 1]
    /\ known = [c \in Clients |-> [h \in Holdings |-> -1]]
    /\ knownTotal = [c \in Clients |-> -1]
    /\ sum = [c \in Clients |-> 0]
    /\ todo = [c \in Clients |-> {}]
    /\ alone = {}
    /\ trusted = TRUE

--------------------------------------------------------------------------------
Goto(c, s) == pc' = [pc EXCEPT ![c] = s]
Active == {c \in Clients : pc[c] \notin {"new", "done", "dead"}}

\* POST /portfolios: a portfolio without holdings.
CreateEmpty(c) ==
    /\ pc[c] = "new" /\ c \in Creators /\ owner = NoUser /\ Batch[c] = <<>>
    /\ owner' = User[c]
    /\ Goto(c, "done")
    /\ UNCHANGED <<rows, base, total, i, known, knownTotal, sum, todo, alone, trusted>>

Enter(c) ==
    /\ pc[c] = "new" /\ Cardinality(Active) < MaxActive
    /\ knownTotal' = [knownTotal EXCEPT ![c] = total]
    /\ alone' = IF Active = {} THEN {c} ELSE {}
    /\ Goto(c, "insert")
    /\ UNCHANGED <<rows, base, total, i, known, sum, todo, trusted>>

\* An upload whose holdings are valid and priced creates the portfolio.
CreateUpload(c) ==
    /\ c \in Creators /\ owner = NoUser /\ Batch[c] # <<>>
    /\ owner' = User[c]
    /\ Enter(c)

\* add_holding loads the portfolio, which is its user's.
Begin(c) ==
    /\ c \notin Creators /\ owner = User[c]
    /\ Enter(c)
    /\ UNCHANGED owner

\* The insert, with weight 0, its commit and its refresh.
Insert(c) ==
    /\ pc[c] = "insert"
    /\ rows' = rows \cup {<<c, i[c]>>}
    /\ known' = [known EXCEPT ![c][<<c, i[c]>>] = 0]
    /\ Goto(c, "read")
    /\ UNCHANGED <<owner, base, total, i, knownTotal, sum, todo, alone, trusted>>

\* Mutated form of Read: rows that are not the portfolio's are read as well.
ReadMore(c) ==
    /\ pc[c] = "read"
    /\ sum' = [sum EXCEPT ![c] = Sum(rows)]
    /\ todo' = [todo EXCEPT ![c] = Holdings]
    /\ Goto(c, "total")
    /\ UNCHANGED <<owner, rows, base, total, i, known, knownTotal, alone, trusted>>

\* get_holdings: a session keeps the rows it has loaded before as they were.
Read(c) ==
    /\ pc[c] = "read"
    /\ sum' = [sum EXCEPT ![c] = Sum(rows)]
    /\ todo' = [todo EXCEPT ![c] = rows]
    /\ known' = [known EXCEPT ![c] =
                   [h \in Holdings |-> IF h \in rows /\ @[h] = -1 THEN base[h] ELSE @[h]]]
    /\ Goto(c, "total")
    /\ UNCHANGED <<owner, rows, base, total, i, knownTotal, alone, trusted>>

\* A value is written only if it differs from what the session has loaded.
SetTotal(c) ==
    /\ pc[c] = "total"
    /\ total' = IF sum[c] # knownTotal[c] THEN sum[c] ELSE total
    /\ knownTotal' = [knownTotal EXCEPT ![c] = total']
    /\ Goto(c, "weights")
    /\ UNCHANGED <<owner, rows, base, i, known, sum, todo, alone, trusted>>

\* Mutated form of WeightBase: the weight is taken of the other holdings.
WeightBaseOthers(c, h) == IF Value(h) = 0 THEN 0 ELSE Sum(todo[c] \ {h})

\* h.market_value / total_value, or 0.
WeightBase(c, h) == IF Value(h) = 0 THEN 0 ELSE sum[c]

\* Mutated form of SetWeight: only the weight of the new holding is set.
SetWeightOwn(c, h) ==
    /\ pc[c] = "weights" /\ h \in todo[c]
    /\ base' = IF h = <<c, i[c]>> THEN [base EXCEPT ![h] = WeightBase(c, h)] ELSE base
    /\ known' = [known EXCEPT ![c][h] = base'[h]]
    /\ todo' = [todo EXCEPT ![c] = @ \ {h}]
    /\ UNCHANGED <<owner, rows, total, pc, i, knownTotal, sum, alone, trusted>>

\* One row of the loop: its UPDATE, if any, its commit and its refresh.
SetWeight(c, h) ==
    /\ pc[c] = "weights" /\ h \in todo[c]
    /\ base' = IF WeightBase(c, h) # known[c][h]
               THEN [base EXCEPT ![h] = WeightBase(c, h)] ELSE base
    /\ known' = [known EXCEPT ![c][h] = base'[h]]
    /\ todo' = [todo EXCEPT ![c] = @ \ {h}]
    /\ UNCHANGED <<owner, rows, total, pc, i, knownTotal, sum, alone, trusted>>

\* An upload goes on with its next holding.
NextHolding(c) ==
    /\ pc[c] = "weights" /\ todo[c] = {} /\ i[c] < Len(Batch[c])
    /\ i' = [i EXCEPT ![c] = @ + 1]
    /\ Goto(c, "insert")
    /\ UNCHANGED <<owner, rows, base, total, known, knownTotal, sum, todo, alone, trusted>>

Leave(c, s) ==
    /\ Goto(c, s)
    /\ known' = [known EXCEPT ![c] = [h \in Holdings |-> -1]]
    /\ knownTotal' = [knownTotal EXCEPT ![c] = -1]
    /\ sum' = [sum EXCEPT ![c] = 0]
    /\ todo' = [todo EXCEPT ![c] = {}]
    /\ trusted' = (s = "done" /\ c \in alone)
    /\ UNCHANGED <<owner, rows, base, total, i, alone>>

Return(c) ==
    /\ pc[c] = "weights" /\ todo[c] = {} /\ i[c] = Len(Batch[c])
    /\ Leave(c, "done")

\* The process dies, or the database cannot be reached.
Die(c) == c \in Active /\ Leave(c, "dead")

Next ==
    \E c \in Clients :
        \/ CreateEmpty(c) \/ CreateUpload(c) \/ Begin(c)
        \/ Insert(c) \/ Read(c) \/ SetTotal(c)
        \/ \E h \in Holdings : SetWeight(c, h)
        \/ NextHolding(c) \/ Return(c) \/ Die(c)

Spec == Init /\ [][Next]_vars

--------------------------------------------------------------------------------
\* The weights add up: total and all weights are those of the holdings.
Consistent ==
    /\ total = Sum(rows)
    /\ \A h \in rows : base[h] = (IF Value(h) = 0 THEN 0 ELSE total)

\* add_holding recalculates every weight: a call, or an upload, that overlaps
\* with no other and does not die leaves total and weights that add up,
\* whatever overlapping and dying calls have left behind before it.
SoloCallRestores == Active = {} /\ trusted => Consistent

\* check_holding_weight_bounds: no weight exceeds 1, in whatever state other
\* calls have left the rows, and no UPDATE is refused for that.
WeightsWithinBounds == \A h \in rows : base[h] # 0 => base[h] >= Value(h)

================================================================================
