----------------------------- MODULE FormulaOps -----------------------------
(***************************************************************************)
(* What the three readers of formulas compute on a text that is cut into   *)
(* tokens: Formula.Evaluate of the client, FormulaEvaluator.Evaluate, the  *)
(* library it was made from, and evaluateFormula and getVariables of the   *)
(* server.                                                                 *)
(*                                                                         *)
(* A token is one of the six symbols, a numeral, a name, or anything else. *)
(* A text is its tokens, and its blanks: blanks[k] is the number of tokens *)
(* before the k-th.  The arithmetic is a parameter, of doubles in Formula  *)
(* and of integers in the older library (strict).                          *)
(***************************************************************************)
EXTENDS Integers, Sequences, SequencesExt, FiniteSets

CONSTANTS
  Numeral,        \* the tokens that Double.TryParse reads
  Exponent,       \* those among them with a letter, as 1e1
  Whole,          \* those that int.TryParse reads
  Name,           \* other tokens of letters, digits and '_' that start with no digit
  Normal,         \* the normal form of each, in capital letters
  Parts,          \* the cell names that the server reads in a name, one after
                  \* the other; none if it refuses the name
  Blank,          \* what the server takes a blank of a text for
  Defined,        \* the names for which Lookup finds a number
  NumberOf(_, _), \* the number a numeral or a defined name stands for
  Number,         \* the numbers
  Zero, Plus(_, _, _), Minus(_, _, _), Times(_, _, _), Over(_, _, _)

Signs    == {"+", "-"}
Products == {"*", "/"}
Operator == Signs \cup Products

\* The names that are ^[a-zA-Z]+[0-9]+$, which the server leaves whole.
CellName == {n \in Name : Parts[n] = <<n>>}

ASSUME TokenAssumption ==
  /\ Numeral \cap Name = {} /\ (Numeral \cup Name) \cap (Operator \cup {"(", ")"}) = {}
  /\ Exponent \subseteq Numeral /\ Whole \subseteq Numeral \ Exponent
  /\ Name = DOMAIN Parts /\ Blank \notin Name
  /\ Normal \in [Name -> Name]
  /\ \A n \in Name : Normal[Normal[n]] = Normal[n] /\ (n \in CellName <=> Normal[n] \in CellName)
  /\ Defined \subseteq CellName

ASSUME NumberAssumption ==
  /\ Zero \in Number
  /\ \A strict \in BOOLEAN :
       /\ \A t \in Numeral \cup Defined : NumberOf(strict, t) \in Number
       /\ \A x, y \in Number :
            /\ {Plus(strict, x, y), Minus(strict, x, y), Times(strict, x, y)} \subseteq Number
            /\ y # Zero => Over(strict, x, y) \in Number

Apply(strict, op, x, y) ==
  CASE op = "+" -> Plus(strict, x, y)
    [] op = "-" -> Minus(strict, x, y)
    [] op = "*" -> Times(strict, x, y)
    [] op = "/" -> Over(strict, x, y)

\* The two libraries: Formula, and the older one.
Lenient == FALSE
Strict  == TRUE

\* Formula has each name in its normal form, the older library as it is written.
Listed(strict, t) == IF strict \/ t \notin Name THEN t ELSE Normal[t]

\* The tokens that a library reads as numbers.
Numbered(strict) ==
  (IF strict THEN Whole ELSE Numeral) \cup {n \in Name : Listed(strict, n) \in Defined}

Worth(strict, t) == NumberOf(strict, Listed(strict, t))

-----------------------------------------------------------------------------
(* The evaluation of both client libraries: a stack of values and one of   *)
(* operators, the top of each last, and the result once there is one.  The *)
(* older library (strict) throws ArgumentException where Formula returns a *)
(* FormulaError, lets an empty stack throw, or goes on.                    *)

Value(x)          == [kind |-> "value", value |-> x]
FormulaError      == [kind |-> "error"]
StackEmpty        == [kind |-> "throws"]
ArgumentException == [kind |-> "argument"]

Start(strict) == [strict |-> strict, values |-> <<>>, ops |-> <<>>, ends |-> <<>>]

Fail(m, result) ==
  [m EXCEPT !.ends = <<IF m.strict THEN ArgumentException ELSE result>>]

IsOnTop(stack, symbols) == stack # <<>> /\ Last(stack) \in symbols

PushValue(m, x) == [m EXCEPT !.values = Append(@, x)]

\* Takes the upper operator off, and two values for their result.
Combine(m) ==
  IF Len(m.values) < 2 THEN Fail(m, StackEmpty)
  ELSE LET below == Front(m.values)
       IN [m EXCEPT !.values = Append(Front(below),
                                       Apply(m.strict, Last(m.ops), Last(below), Last(m.values))),
                    !.ops = Front(@)]

\* Mutant of AddDouble: a product waits for the end, as a sum does.
AddDoubleLate(m, x) == PushValue(m, x)

\* AddDouble, AddInt: a product is taken when its second operand is there.
AddDouble(m, x) ==
  IF ~IsOnTop(m.ops, Products) THEN PushValue(m, x)
  ELSE IF x = Zero /\ Last(m.ops) = "/" THEN Fail(m, FormulaError)
  ELSE Combine(PushValue(m, x))

\* AddOrSubtractSign, without the push.
AddOrSubtract(m) == IF IsOnTop(m.ops, Signs) THEN Combine(m) ELSE m

PushOperator(m, op) == IF m.ends = <<>> THEN [m EXCEPT !.ops = Append(@, op)] ELSE m

\* Mutant of RightParenthesis: the product before the parenthesis is left.
RightParenthesisOnly(m) ==
  LET n == AddOrSubtract(m)
  IN IF n.ends # <<>> \/ ~IsOnTop(n.ops, {"("}) THEN n ELSE [n EXCEPT !.ops = Front(@)]

\* The sum inside, the "(" and the product before it.
RightParenthesis(m) ==
  LET n      == AddOrSubtract(m)
      opened == IF IsOnTop(n.ops, {"("}) THEN [n EXCEPT !.ops = Front(@)] ELSE n
  IN IF n.ends # <<>> THEN n
     ELSE IF n.strict /\ opened = n THEN Fail(n, StackEmpty)
     ELSE IF n.values = <<>> THEN opened
     ELSE AddDouble([opened EXCEPT !.values = Front(@)], Last(n.values))

\* One round of the loop over the tokens.  A name that is no cell name, which
\* HelpVariable lets through, falls through every branch of Formula's loop; the
\* older library throws at any token it does not know.
EvaluateToken(m, t) ==
  IF m.ends # <<>> THEN m
  ELSE IF t \in Numbered(m.strict) THEN AddDouble(m, Worth(m.strict, t))
  ELSE IF t \in CellName THEN Fail(m, FormulaError)
  ELSE IF t \in Signs THEN PushOperator(AddOrSubtract(m), t)
  ELSE IF t \in Products \cup {"("} THEN PushOperator(m, t)
  ELSE IF t = ")" THEN RightParenthesis(m)
  ELSE IF m.strict THEN Fail(m, StackEmpty) ELSE m

\* After the loop: one operator at most is taken, and if it is no sign its two
\* values are dropped.
EvaluateEnd(m) ==
  IF m.ends # <<>> THEN m.ends[1]
  ELSE IF m.strict /\ \/ m.ops # <<>> /\ (Len(m.ops) > 1 \/ Len(m.values) # 2)
                      \/ IsOnTop(m.ops, Products \cup {"("})
       THEN ArgumentException
  ELSE LET n == IF m.ops = <<>> THEN m
                ELSE IF IsOnTop(m.ops, Signs) \/ Len(m.values) < 2 THEN Combine(m)
                ELSE [m EXCEPT !.values = Front(Front(@))]
       IN IF n.ends # <<>> THEN n.ends[1]
          ELSE IF n.values # <<>> THEN Value(Last(n.values))
          ELSE IF n.strict THEN ArgumentException ELSE StackEmpty

Evaluated(tokens, strict) ==
  LET m[i \in 0..Len(tokens)] == IF i = 0 THEN Start(strict) ELSE EvaluateToken(m[i - 1], tokens[i])
  IN EvaluateEnd(m[Len(tokens)])

\* Formula.Evaluate, of a formula whose tokens its constructor has taken.
Evaluate(tokens) == Evaluated(tokens, Lenient)

\* The blanks after the first p tokens.
Gap(blanks, p) == Cardinality({k \in DOMAIN blanks : blanks[k] = p})

\* Regex.Split leaves the blanks where they are, and what Replace returns is
\* dropped: a blank makes a name unknown, and more than one without a numeral
\* beside them are a token of their own.
Spaced(tokens, blanks) ==
  \E p \in 0..Len(tokens) :
    LET beside == {tokens[i] : i \in {p, p + 1} \cap DOMAIN tokens}
    IN \/ Gap(blanks, p) > 0 /\ beside \cap Name # {}
       \/ Gap(blanks, p) > 1 /\ beside \cap Numeral = {}

\* FormulaEvaluator.Evaluate, of a text that is a formula of the client.  Its
\* Lookup throws ArgumentException as well, so that it makes no difference
\* which token it throws at.
EvaluateExpression(tokens, blanks) ==
  IF Spaced(tokens, blanks) THEN ArgumentException ELSE Evaluated(tokens, Strict)

-----------------------------------------------------------------------------
(* The server.                                                             *)

\* The matches of getVariables in one token, of a text that evaluateFormula
\* takes: letters followed by digits, as they are written.
VariablesIn(t) == IF t \in Name THEN Parts[t] ELSE <<>>

\* And those after the first p tokens: every blank is one.
Spaces(blanks, p) == [k \in 1..Gap(blanks, p) |-> Blank]

GetVariables(tokens, blanks) ==
  LET names[i \in 0..Len(tokens)] ==
        IF i = 0 THEN Spaces(blanks, 0)
        ELSE names[i - 1] \o VariablesIn(tokens[i]) \o Spaces(blanks, i)
  IN names[Len(tokens)]

\* Mutant of Doubled: after a parenthesis no operator may come either.
DoubledOrOpened(tokens, i) == tokens[i] \in Operator /\ tokens[i - 1] \in Operator \cup {"(", ")"}

\* An operator right after another one, unless it is a minus.
Doubled(tokens, i) == tokens[i] \in Operator \ {"-"} /\ tokens[i - 1] \in Operator

Count(tokens, token) == Cardinality({i \in DOMAIN tokens : tokens[i] = token})

\* evaluateFormula, which takes the blanks out first, of a text in which no
\* numeral or name touches another: the order of the parentheses and what
\* stands beside them is not looked at.
EvaluateFormula(tokens) ==
  /\ \A i \in DOMAIN tokens :
       /\ tokens[i] \in (Numeral \ Exponent) \cup {n \in Name : Parts[n] # <<>>}
                          \cup Operator \cup {"(", ")"}
       /\ i > 1 => ~Doubled(tokens, i)
  /\ Last(tokens) \notin Operator \cup {"("}
  /\ Count(tokens, "(") = Count(tokens, ")")
  /\ \E i \in DOMAIN tokens : tokens[i] \in Numeral \cup Name

=============================================================================
