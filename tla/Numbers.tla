------------------------------- MODULE Numbers -------------------------------
(***************************************************************************)
(* int.c, float.c and what data.c makes of their values: promotion, casts, *)
(* comparison and arithmetic.  An int has IntBits, the long that holds a   *)
(* value more; a float is counted in halves and never rounded.             *)
(***************************************************************************)
EXTENDS Integers, Sequences, SequencesExt

CONSTANTS
  IntBits, LongBits,  \* the width of an int and of a long
  MaxHalves,          \* bound: floats are between -MaxHalves/2 and MaxHalves/2
  MaxOperands         \* bound: arguments of an operator

ASSUME NumbersAssumption ==
  IntBits \in Nat /\ LongBits \in Nat /\ 0 < IntBits /\ IntBits < LongBits /\ MaxHalves \in Nat /\ MaxOperands \in Nat \ {0}

VARIABLES
  numLeft, numArgs,   \* the operands: the one whose method is called, and its arguments
  numOp, numGot       \* the operation, "" before there was one, and what it answered
numVars == <<numLeft, numArgs, numOp, numGot>>

Truth(v) == [type |-> "bool", v |-> v]
Number(v) == [type |-> "int", v |-> v]
Float(v) == [type |-> "float", v |-> v]
ANull == [type |-> "ptr", v |-> 0]
NoNumber == [type |-> "none", v |-> 0]
Opaque == [type |-> "opaque", v |-> 0]   \* a value whose type has no casts
Unknown == [type |-> "unknown", v |-> 0] \* what lies in memory before the cache of small ints

Wrapped(v, bits) == ((v + 2 ^ (bits - 1)) % 2 ^ bits) - 2 ^ (bits - 1)
Fits(v, bits) == Wrapped(v, bits) = v
Long(v) == Number(Wrapped(v, LongBits))
Magnitude(v) == IF v < 0 THEN -v ELSE v
\* C's division: towards zero, and the remainder has the sign of the dividend.
Quotient(a, b) == IF (a < 0) = (b < 0) THEN Magnitude(a) \div Magnitude(b) ELSE -(Magnitude(a) \div Magnitude(b))
Remainder(a, b) == a - (b * Quotient(a, b))

Longs == -(2 ^ (LongBits - 1)) .. 2 ^ (LongBits - 1) - 1
Operands == {Truth(b) : b \in {0, 1}} \cup {Number(i) : i \in Longs}
          \cup {Float(h) : h \in -MaxHalves .. MaxHalves} \cup {ANull}
Conditions == {Truth(0), Truth(1), Number(0), Number(2), Float(0), Float(1), ANull, Opaque}
IsNumber(a) == a.type \in {"bool", "int", "float"}
TypeNumber == [none |-> 0, ptr |-> 1, int |-> 2, bool |-> 3, float |-> 4]   \* some order of the types
Atom == [type : DOMAIN TypeNumber, v : Int]


(* The cache has a place for a small int, and no bound on the side of the  *)
(* negative ones: below -1 it gives what lies before it, and an int of     *)
(* that value only when that is zero.                                      *)
int_create(v) == {Number(v)} \cup IF v < -1 THEN {Unknown} ELSE {}
-----------------------------------------------------------------------------
bool_get(b) == Truth(IF b THEN 1 ELSE 0)

_int_cast(a, totype) ==
  CASE totype = "float" -> Float(2 * a.v)
    [] totype = "bool" -> bool_get(a.v # 0)
    [] OTHER -> NoNumber
_bool_cast(a, totype) == IF totype = "int" THEN Number(a.v) ELSE NoNumber
_float_cast(a, totype) ==
  CASE totype = "int" -> Long(Quotient(a.v, 2))
    [] totype = "bool" -> bool_get(a.v # 0)
    [] OTHER -> NoNumber
_ptr_cast(a, totype) ==
  CASE totype = "bool" -> bool_get(a.v # 0)
    [] totype = "int" -> Number(a.v)
    [] OTHER -> NoNumber

data_cast(a, totype) ==
  CASE a.type = totype -> a
    [] a.type # totype /\ a.type = "bool" -> _bool_cast(a, totype)
    [] a.type # totype /\ a.type = "int" -> _int_cast(a, totype)
    [] a.type # totype /\ a.type = "float" -> _float_cast(a, totype)
    [] OTHER -> _ptr_cast(a, totype)

data_promote(a) ==
  CASE a.type = "bool" -> data_cast(a, "int")
    [] a.type = "int" -> data_cast(a, "float")
    [] OTHER -> NoNumber

\* The value as an int, and in halves as a double.
data_intval(a) ==
  Wrapped(IF a.type = "float" THEN Quotient(a.v, 2) ELSE a.v, IntBits)
data_floatval(a) == IF a.type = "float" THEN a.v ELSE 2 * a.v

\* Wrong: the difference would be cut off twice.
CutToByte(a, b) == Wrapped(a.v - b.v, IntBits - 1)

(* The difference, cut off to an int.                                      *)
_int_cmp(a, b) == Wrapped(Wrapped(a.v - b.v, LongBits), IntBits)
_float_cmp(a, b) == IF a.v = b.v THEN 0 ELSE IF a.v > b.v THEN 1 ELSE -1
SameType(a, b) == IF a.type = "float" THEN _float_cmp(a, b) ELSE IF a.type = "ptr" THEN 0 ELSE _int_cmp(a, b)

(* data_cmp: one operand is promoted, then the other, then both, until     *)
(* they have one type or can go no further.                                *)
data_cmp(left, right) ==
  LET cmp[a \in Atom, b \in Atom] ==
        LET p1 == data_promote(a)
            p2 == data_promote(b)
        IN CASE a.type = b.type -> IF a = b THEN 0 ELSE SameType(a, b)
             [] a.type # b.type /\ p1.type = b.type -> cmp[p1, b]
             [] a.type # b.type /\ p1.type # b.type /\ p2.type = a.type -> cmp[a, p2]
             [] p1 = NoNumber /\ p2 = NoNumber /\ a.type # b.type -> TypeNumber[a.type] - TypeNumber[b.type]
             [] OTHER -> cmp[IF p1 = NoNumber THEN a ELSE p1, IF p2 = NoNumber \/ p2.type = a.type THEN b ELSE p2]
  IN cmp[left, right]
-----------------------------------------------------------------------------
(* The methods of numbers.  An int is added as an int, whatever it holds;  *)
(* one float among the operands makes all of them floats.                  *)
HasFloat(args) == \E i \in DOMAIN args : args[i].type = "float"
Given(minus, v) == IF minus THEN -v ELSE v

_int_add(self, minus, args) ==
  CASE args = <<>> -> Number(Given(minus, self.v))
    [] HasFloat(args) ->
         Float(FoldLeft(LAMBDA sum, a : sum + Given(minus, data_floatval(a)), data_floatval(self), args))
    [] OTHER -> Long(FoldLeft(LAMBDA sum, a : sum + Given(minus, data_intval(a)), data_intval(self), args))

_number_add(self, minus, args) ==
  IF args = <<>> THEN Float(Given(minus, self.v))
  ELSE Float(FoldLeft(LAMBDA sum, a : sum + Given(minus, data_floatval(a)), self.v, args))

\* Wrong: the product of a float and an int would be one of ints.
AlwaysInt(self, d) == Long(data_intval(self) * data_intval(d))

_int_mult(self, d) ==
  IF d.type = "float" THEN Float((data_floatval(self) * d.v) \div 2) ELSE Long(data_intval(self) * data_intval(d))
_number_mult(self, d) == Float((self.v * data_floatval(d)) \div 2)

_int_div(self, d) ==
  IF d.type = "float" THEN Float(Quotient(2 * data_floatval(self), d.v))
  ELSE Long(Quotient(data_intval(self), data_intval(d)))
_number_div(self, d) == Float(Quotient(2 * self.v, data_floatval(d)))
_int_mod(self, d) == Long(Remainder(data_intval(self), data_intval(d)))

_int_abs(self) == Number(Magnitude(data_intval(self)))
_number_abs(self) == Float(Magnitude(self.v))

(* round goes away from zero when it lies half way.                        *)
_number_floor(self) == Long(data_floatval(self) \div 2)
_number_ceil(self) == Long(-((-data_floatval(self)) \div 2))
_number_trunc(self) == Long(Quotient(data_floatval(self), 2))
_number_round(self) ==
  LET h == data_floatval(self) IN Long(IF h < 0 THEN -((1 - h) \div 2) ELSE (h + 1) \div 2)

_number_minmax(self, max, args) ==
  FoldLeft(LAMBDA ret, d :
             IF max THEN IF data_floatval(ret) > data_floatval(d) THEN ret ELSE d
             ELSE IF data_floatval(ret) < data_floatval(d) THEN ret ELSE d, self, args)
-----------------------------------------------------------------------------
(* any.c: comparison and logic, for any value.  What has no cast to a      *)
(* truth value is an error where it is looked at, and only there.          *)
SyntaxError == [type |-> "exception", v |-> 0]
AsBool(a) == IF a = Opaque THEN NoNumber ELSE data_cast(a, "bool")

_any_cmp(op, a, b) ==
  LET cmp == data_cmp(a, b)
  IN bool_get(CASE op = "==" -> cmp = 0 [] op = "!=" -> cmp # 0 [] op = ">" -> cmp > 0
                [] op = ">=" -> cmp >= 0 [] op = "<" -> cmp < 0 [] op = "<=" -> cmp <= 0)

_any_not(a) == IF AsBool(a) = NoNumber THEN SyntaxError ELSE bool_get(AsBool(a).v = 0)

\* The first operand that is no truth value, or the one that decides, is the answer.
Decides(a, v) == AsBool(a) = NoNumber \/ AsBool(a).v = v
FirstOf(args, v) == SelectInSeq(args, LAMBDA a : Decides(a, v))

\* Wrong: operands behind the one that decides would be looked at.
LooksAtAll(args, v) ==
  IF \E i \in DOMAIN args : AsBool(args[i]) = NoNumber THEN SyntaxError
  ELSE Truth(IF FirstOf(args, v) = 0 THEN 1 - v ELSE v)

Connected(args, v) ==
  LET at == FirstOf(args, v)
  IN IF at = 0 THEN Truth(1 - v) ELSE IF AsBool(args[at]) = NoNumber THEN SyntaxError ELSE Truth(v)
_any_and(self, args) == Connected(<<self>> \o args, 0)
_any_or(self, args) == Connected(<<self>> \o args, 1)
-----------------------------------------------------------------------------
Did(op, self, args, got) == numOp' = op /\ numLeft' = self /\ numArgs' = args /\ numGot' = got
\* What is made anew; min and max answer an operand, and a comparison a C int.
Makes(op, self, args, got) ==
  \E made \in IF got.type = "int" THEN int_create(got.v) ELSE {got} : Did(op, self, args, made)
Halves(v) == v % 2 = 0 \* exact: the result is a number of halves

Compares ==
  \E a, b \in Operands : Did("cmp", a, <<b>>, Number(data_cmp(a, b)))

Asks ==
  \E a, b \in Operands, op \in {"==", "!=", ">", ">=", "<", "<="} : Did(op, a, <<b>>, _any_cmp(op, a, b))

Connects ==
  \E a \in Conditions, args \in BoundedSeq(Conditions, MaxOperands) :
    \/ args = <<>> /\ Did("not", a, args, _any_not(a))
    \/ args # <<>> /\ (Did("and", a, args, _any_and(a, args)) \/ Did("or", a, args, _any_or(a, args)))

Adds ==
  \E a \in Operands, args \in BoundedSeq({x \in Operands : IsNumber(x)}, MaxOperands), minus \in BOOLEAN :
    /\ IsNumber(a)
    /\ Makes(IF minus THEN "-" ELSE "+", a, args,
             IF a.type = "float" THEN _number_add(a, minus, args) ELSE _int_add(a, minus, args))

Multiplies ==
  \E a, b \in {x \in Operands : IsNumber(x)} :
    /\ HasFloat(<<a, b>>) => Halves(data_floatval(a) * data_floatval(b))
    /\ Makes("*", a, <<b>>, IF a.type = "float" THEN _number_mult(a, b) ELSE _int_mult(a, b))

(* Nobody looks whether the divisor is zero: a float becomes infinite, an  *)
(* int kills the program, as does the quotient that no int can hold.       *)
Divides ==
  \E a, b \in {x \in Operands : IsNumber(x)} :
    /\ b.v # 0
    /\ IF HasFloat(<<a, b>>) THEN Remainder(2 * data_floatval(a), data_floatval(b)) = 0
       ELSE data_intval(b) # 0 /\ Fits(Quotient(data_intval(a), data_intval(b)), IntBits)
    /\ \/ Makes("/", a, <<b>>, IF a.type = "float" THEN _number_div(a, b) ELSE _int_div(a, b))
       \/ ~HasFloat(<<a, b>>) /\ Makes("%", a, <<b>>, _int_mod(a, b))

Rounds ==
  \E a \in {x \in Operands : IsNumber(x)} :
    \/ Makes("abs", a, <<>>, IF a.type = "float" THEN _number_abs(a) ELSE _int_abs(a))
    \/ Makes("floor", a, <<>>, _number_floor(a))
    \/ Makes("ceil", a, <<>>, _number_ceil(a))
    \/ Makes("trunc", a, <<>>, _number_trunc(a))
    \/ Makes("round", a, <<>>, _number_round(a))

Picks ==
  \E a \in Operands, args \in BoundedSeq({x \in Operands : IsNumber(x)}, MaxOperands), max \in BOOLEAN :
    /\ IsNumber(a) /\ args # <<>>
    /\ Did(IF max THEN "max" ELSE "min", a, args, _number_minmax(a, max, args))

NumbersInit == numLeft = ANull /\ numArgs = <<>> /\ numOp = "" /\ numGot = ANull
NumbersNext == numOp = "" /\ (Compares \/ Asks \/ Connects \/ Adds \/ Multiplies \/ Divides \/ Rounds \/ Picks)
-----------------------------------------------------------------------------
(* The value in halves, and whether an int can hold it.                    *)
Worth(a) == data_floatval(a)
Held(a) == a.type = "float" \/ Fits(a.v, IntBits)
Held2(a, b) == Held(a) /\ Held(b)
AllHeld == Held(numLeft) /\ \A i \in DOMAIN numArgs : Held(numArgs[i])
Known == numGot # Unknown
Exact(worth) == Fits(worth \div 2, LongBits) /\ Known => Worth(numGot) = worth
BeforeCache(worth) == worth < -2 \/ ~Fits(worth \div 2, LongBits)

(* data.c:707, int.c:121 -- numbers compare as what they are worth,        *)
(* whatever their types, as long as an int holds the difference; what      *)
(* compares one way compares the other way round from the other side.      *)
NumbersCompare ==
  numOp = "cmp" =>
    LET a == numLeft
        b == numArgs[1]
        difference == Worth(a) - Worth(b)
        back == data_cmp(b, a)
    IN /\ IsNumber(a) /\ IsNumber(b) /\ Fits(Magnitude(difference) \div 2, IntBits) =>
            /\ numGot.v < 0 <=> difference < 0
            /\ numGot.v = 0 <=> difference = 0
            /\ numGot.v < 0 <=> back > 0
       /\ IsNumber(a) # IsNumber(b) => numGot.v # 0 /\ (numGot.v < 0 <=> back > 0)

(* any.c:119 -- `less than' is an order on all values there are, numbers   *)
(* of any type and others, as long as an int holds the differences.        *)
LessIsAnOrder ==
  numOp = "<" =>
    LET a == numLeft
        b == numArgs[1]
        less(x, y) == _any_cmp("<", x, y).v = 1
        near(x, y) == IsNumber(x) /\ IsNumber(y) => Fits(Magnitude(Worth(x) - Worth(y)) \div 2, IntBits)
    IN \A c \in Operands : near(a, b) /\ near(b, c) /\ near(a, c) /\ less(a, b) /\ less(b, c) => less(a, c)

(* any.c:146, any.c:162, any.c:186 -- the operands of a condition are      *)
(* looked at from the left until one decides: an operand that is no truth  *)
(* value is an error unless one before it has decided.                     *)
ConditionsDecide ==
  numOp \in {"and", "or"} =>
    LET args == <<numLeft>> \o numArgs
        true(i) == args[i] # Opaque /\ args[i].v # 0
        open(i) == \A j \in 1 .. i - 1 : args[j] # Opaque /\ (true(j) <=> numOp = "and")
    IN /\ numGot = SyntaxError <=> \E i \in DOMAIN args : open(i) /\ args[i] = Opaque
       /\ numGot = Truth(1) <=> IF numOp = "and" THEN \A i \in DOMAIN args : true(i)
                               ELSE \E i \in DOMAIN args : open(i) /\ true(i)

(* int.c:157, int.c:347, float.c:156 -- arithmetic is exact where the      *)
(* operands fit an int, through all the mixtures of types; quotient and    *)
(* remainder belong together; rounding stays within one of the number,     *)
(* floor below it.  Of what is read from before the cache of small ints    *)
(* it is said only that the number due is below -1.                        *)
SumsAreSums ==
  AllHeld =>
    LET args == FoldLeft(LAMBDA sum, a : sum + Worth(a), 0, numArgs)
        self == Worth(numLeft)
        worth == {self} \cup {Worth(numArgs[i]) : i \in DOMAIN numArgs}
        floats == HasFloat(<<numLeft>> \o numArgs)
        due == CASE numOp = "+" -> self + args
                 [] numOp = "-" -> IF numArgs = <<>> THEN -self ELSE self - args
                 [] numOp = "*" -> (self * args) \div 2
                 [] numOp = "/" -> 2 * Quotient(self, args)
                 [] numOp = "%" -> Remainder(self, args)
                 [] numOp = "abs" -> Magnitude(self)
                 [] OTHER -> self
    IN /\ ~Known => BeforeCache(due)
       /\ CASE numOp = "+" -> Exact(self + args)
            [] numOp = "-" -> IF numArgs = <<>> THEN Known => Worth(numGot) = -self ELSE Exact(self - args)
            [] numOp = "*" -> Exact((self * args) \div 2) /\ (numGot.type = "float" <=> floats)
            [] numOp = "/" -> (floats => Worth(numGot) * args = 2 * self)
            [] numOp = "%" -> Known => 2 * _int_div(numLeft, numArgs[1]).v * (args \div 2) + Worth(numGot) = self
            [] numOp \in {"floor", "trunc", "ceil", "round"} /\ Known ->
              /\ Magnitude(Worth(numGot) - self) < 2
              /\ numOp = "floor" => Worth(numGot) <= self
              /\ numOp = "ceil" => Worth(numGot) >= self
              /\ numOp = "trunc" => Magnitude(Worth(numGot)) <= Magnitude(self)
            [] numOp = "abs" -> Worth(numGot) = Magnitude(self)
            [] numOp \in {"min", "max"} ->
              /\ Worth(numGot) \in worth
              /\ \A w \in worth : IF numOp = "max" THEN Worth(numGot) >= w ELSE Worth(numGot) <= w
            [] OTHER -> TRUE
=============================================================================
