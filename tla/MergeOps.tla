------------------------------ MODULE MergeOps ------------------------------
(* The merge operator given to RocksDB: a command without redis_compatible  *)
(* leaves an operand; the library joins neighbouring operands whenever it   *)
(* compacts (PartialMerge) and applies them to the value when it is read or *)
(* compacted with it (FullMergeV2).  An operand is <<operation, argument>>. *)
EXTENDS StringType

CONSTANTS MergeBases,    \* the values merged into
          Operands,
          MaxOperands    \* bound on the merges of a behaviour

VARIABLES base,      \* the value under the operands
          operands,  \* what the library keeps above it
          plain,     \* history: the value had every operand been applied at once
          issued,    \* history: the number of merges
          squashed   \* history: equal operands that do not commute with themselves were made one

mvars == <<base, operands, plain, issued, squashed>>

(* Ardb::AdjustMergeOp *)
AdjustMergeOp(op) ==
    CASE op[1] = "incr" -> <<"incrby", op[2]>>
      [] op[1] = "decr" -> <<"incrby", -1>>
      [] op[1] = "decrby" -> <<"incrby", -op[2]>>
      [] OTHER -> op

(* Ardb::MergeOperation; PSETEX loses its time to live. *)
MergeOperation(m, operand) ==
    LET op == AdjustMergeOp(operand) IN
    CASE op[1] = "incrby" -> MergeIncrBy(m, op[2])
      [] op[1] = "append" -> MergeAppend(m, op[2])
      [] op[1] = "setnx" -> MergeSet(m, "nx", SetString(op[2], TRUE), 0)
      [] op[1] = "setxx" -> MergeSet(m, "xx", SetString(op[2], TRUE), 0)
      [] op[1] = "psetex" -> MergeSet(m, "set", SetString(op[2], TRUE), 0)
      [] op[1] = "setrange" -> MergeSetRange(m, 1, op[2])
      [] op[1] = "pexpireat" -> MergeExpire(m, op[2])

(* Mutant: of two SETNX the later is kept. *)
MergeOperandsLater(left, right) ==
    IF left[1] # right[1] THEN <<>>
    ELSE IF left[1] = "incrby" THEN <<"incrby", left[2] + right[2]>>
    ELSE IF left[1] \in {"pexpireat", "setxx", "setnx"} THEN right
    ELSE <<>>

(* Ardb::MergeOperands, <<>> when the two are not joined. *)
MergeOperands(left, right) ==
    IF left[1] # right[1] THEN <<>>
    ELSE IF left[1] = "incrby" THEN <<"incrby", left[2] + right[2]>>
    ELSE IF left[1] \in {"pexpireat", "setxx"} THEN right
    ELSE IF left[1] = "setnx" THEN left
    ELSE <<>>

PartialMerge(left, right) == IF left = right THEN right ELSE MergeOperands(left, right)

(* FullMergeV2: a failed operand is passed over. *)
FullMergeV2(m, ops) == FoldLeft(LAMBDA v, op : MergeOperation(v, op).meta, m, ops)

(* Operations that done twice do more than once. *)
Accumulates(op) == op[1] \in {"incr", "incrby", "decr", "decrby", "append"}

Merge == \E op \in Operands :
    /\ issued < MaxOperands
    /\ issued' = issued + 1
    /\ operands' = Append(operands, op)
    /\ plain' = MergeOperation(plain, op).meta
    /\ UNCHANGED <<base, squashed>>

Join == \E i \in 1..Len(operands) - 1 :
    LET p == PartialMerge(operands[i], operands[i + 1]) IN
    /\ p # <<>>
    /\ operands' = SubSeq(operands, 1, i - 1) \o <<p>> \o SubSeq(operands, i + 2, Len(operands))
    /\ squashed' = (squashed \/ (operands[i] = operands[i + 1] /\ Accumulates(operands[i])))
    /\ UNCHANGED <<base, plain, issued>>

Settle ==
    /\ operands # <<>>
    /\ base' = FullMergeV2(base, operands)
    /\ operands' = <<>>
    /\ UNCHANGED <<plain, issued, squashed>>

MergeInit ==
    /\ base \in MergeBases
    /\ operands = <<>>
    /\ plain = base
    /\ issued = 0
    /\ squashed = FALSE

MergeNext == Merge \/ Join \/ Settle

MergeSpec == MergeInit /\ [][MergeNext]_mvars

(* What a read sees does not depend on what the library has joined, unless  *)
(* two equal increments or appends met in PartialMerge.                     *)
MergeFaithful == squashed \/ FullMergeV2(base, operands) = plain

=============================================================================
