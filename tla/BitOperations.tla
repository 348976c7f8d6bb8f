--------------------------- MODULE BitOperations ---------------------------
(***************************************************************************)
(* The bit operations, the shifts and the unsigned word's operations: what *)
(* the program computes (bits are read in two's complement, words modulo   *)
(* 2^WordBits), where an operation runs, and the interval it is given.     *)
(***************************************************************************)
EXTENDS BitIntervals, Bitwise

Width == 2^(EBits + 4)
Signed(n) == IF n >= Width \div 2 THEN n - Width ELSE n
Residue(z) == z % (UMax + 1)

BitSemantics(op, x, y) ==
  CASE op = "and" -> Signed((x % Width) & (y % Width))
    [] op = "or"  -> Signed((x % Width) | (y % Width))
    [] op = "xor" -> Signed((x % Width) ^^ (y % Width))
    [] op = "not" -> -x - 1
    [] op = "shl" -> x * 2^y
    [] op \in {"shr", "lshr"} -> x \div 2^y
    [] op = "u64-of" -> Residue(x)
    [] op = "int-of-u64" -> IF x >= Half THEN x - (UMax + 1) ELSE x
    [] op = "u64+" -> Residue(x + y)
    [] op = "u64-" -> Residue(x - y)
    [] op = "u64*" -> Residue(x * y)
    [] op = "u64/" -> Quo(x, y)
    [] op = "u64%" -> Rem(x, y)

BitDefined(op, x, y) ==
  /\ op \in {"u64/", "u64%"} => y # 0
  /\ op \in {"shl", "shr", "lshr"} => y \in 0 .. ShrCap
  /\ op = "lshr" => x >= 0
  /\ op = "int-of-u64" => x \in 0 .. UMax
  /\ op \in {"u64+", "u64-", "u64*", "u64/", "u64%"} => {x, y} \subseteq 0 .. UMax

BitTransfer(op, a, b) ==
  CASE op = "and" -> AndZ(a, b)
    [] op = "or" -> OrZ(a, b)
    [] op = "xor" -> XorZ(a, b)
    [] op = "not" -> NotZ(a)
    [] op = "shl" -> ShlZ(a, b)
    [] op = "shr" -> ShrZ(a, b)
    [] op = "lshr" -> ShrIV(a, b)
    [] op = "u64-of" -> U64Of(a)
    [] op = "int-of-u64" -> IntOfU64(a)
    [] OTHER -> U64Arith(op, a, b)

=============================================================================
