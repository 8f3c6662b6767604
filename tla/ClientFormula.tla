---------------------------- MODULE ClientFormula ----------------------------
(***************************************************************************)
(* The client's class Formula: the constructor takes the tokens of a text  *)
(* one by one, each by the method for its kind, and throws a               *)
(* FormulaFormatException at the first that may not stand where it does.   *)
(* A formula is evaluated when its cell is recalculated.                   *)
(***************************************************************************)
EXTENDS FormulaOps

CONSTANTS
  Foreign,     \* tokens that are no numeral, name or symbol
  Invalid,     \* names that the validator refuses, in their normal form
  MaxTokens,   \* bound: the tokens and the blanks of a text
  Rare         \* bound: numerals and names of which a text has one at most,
               \* and no blank then

ASSUME TextAssumption ==
  /\ Foreign \cap (Numeral \cup Name \cup Operator \cup {"(", ")"}) = {}
  /\ Numeral # {} /\ Invalid \subseteq Name /\ MaxTokens \in Nat
  /\ \A n \in Name : n \in Invalid <=> Normal[n] \in Invalid

VARIABLES
  tokens,      \* the tokens read, as they are written
  blanks,      \* the blanks skipped, each by the number of tokens before it
  varList,     \* the names in their normal form, each once
  leftParen,   \* how many "(" were read
  rightParen,  \* how many ")"
  status,      \* how far the text is: see TypeOK
  result       \* what Evaluate has returned: none, or one result

vars == <<tokens, blanks, varList, leftParen, rightParen, status, result>>

Token == Numeral \cup Name \cup Foreign \cup Operator \cup {"(", ")"}

TypeOK ==
  /\ tokens \in Seq(Token) /\ blanks \in Seq(Nat) /\ Len(tokens) + Len(blanks) <= MaxTokens
  /\ \A k \in DOMAIN blanks : blanks[k] <= Len(tokens)
  /\ ToSet(varList) \subseteq Name /\ IsInjective(varList)
  /\ leftParen \in Nat /\ rightParen \in 0..(leftParen + 1)
  /\ status \in {"reading", "refused", "unfinished", "formula", "evaluated"}
  /\ (status = "evaluated") = (result # <<>>)

Init ==
  /\ tokens = <<>> /\ blanks = <<>> /\ varList = <<>>
  /\ leftParen = 0 /\ rightParen = 0
  /\ status = "reading" /\ result = <<>>

-----------------------------------------------------------------------------

\* prevString is empty, an opening parenthesis or an operator.
ExpectsOperand == tokens = <<>> \/ Last(tokens) \in Operator \cup {"("}

Read(t) ==
  /\ status = "reading"
  /\ Len(tokens) + Len(blanks) < MaxTokens
  /\ t \in Rare => blanks = <<>> /\ ToSet(tokens) \cap Rare = {}
  /\ tokens' = Append(tokens, t) /\ UNCHANGED blanks

\* GetTokens leaves it out.
SkipBlank ==
  /\ status = "reading"
  /\ Len(tokens) + Len(blanks) < MaxTokens /\ ToSet(tokens) \cap Rare = {}
  /\ blanks' = Append(blanks, Len(tokens))
  /\ UNCHANGED <<tokens, varList, leftParen, rightParen, status, result>>

\* The method of the token throws.
Refused ==
  status' = "refused" /\ UNCHANGED <<varList, leftParen, rightParen, result>>

HelpNumber(t) ==
  /\ t \in Numeral /\ Read(t)
  /\ IF ExpectsOperand
     THEN UNCHANGED <<varList, leftParen, rightParen, status, result>>
     ELSE Refused

\* Mutant of NoteName: a name is listed at every occurrence.
ListName(t) == varList' = Append(varList, t)

NoteName(t) == varList' = IF t \in ToSet(varList) THEN varList ELSE Append(varList, t)

HelpVariable(t) ==
  /\ t \in Name /\ Read(t)
  /\ IF Normal[t] \notin Invalid /\ ExpectsOperand
     THEN NoteName(Normal[t]) /\ UNCHANGED <<leftParen, rightParen, status, result>>
     ELSE Refused

HelpOperator(t) ==
  /\ t \in Operator /\ Read(t)
  /\ IF ~ExpectsOperand
     THEN UNCHANGED <<varList, leftParen, rightParen, status, result>>
     ELSE Refused

HelpParenLeft ==
  /\ Read("(")
  /\ IF ExpectsOperand
     THEN leftParen' = leftParen + 1 /\ UNCHANGED <<varList, rightParen, status, result>>
     ELSE Refused

\* Mutant of HelpParenRight: the parentheses are compared before it counts.
HelpParenRightLate ==
  /\ Read(")")
  /\ IF ExpectsOperand THEN Refused
     ELSE /\ rightParen' = rightParen + 1
          /\ status' = IF rightParen > leftParen THEN "refused" ELSE status
          /\ UNCHANGED <<varList, leftParen, result>>

HelpParenRight ==
  /\ Read(")")
  /\ IF ExpectsOperand THEN Refused
     ELSE /\ rightParen' = rightParen + 1
          /\ status' = IF rightParen' > leftParen THEN "refused" ELSE status
          /\ UNCHANGED <<varList, leftParen, result>>

\* No branch of the constructor takes the token.
ForeignToken(t) == t \in Foreign /\ Read(t) /\ Refused

\* The rules of the constructor after its loop.
EndOfText ==
  /\ status = "reading"
  /\ status' = IF ~ExpectsOperand /\ leftParen = rightParen THEN "formula" ELSE "unfinished"
  /\ UNCHANGED <<tokens, blanks, varList, leftParen, rightParen, result>>

EvaluateOnce ==
  /\ status = "formula"
  /\ status' = "evaluated" /\ result' = <<Evaluate(tokens)>>
  /\ UNCHANGED <<tokens, blanks, varList, leftParen, rightParen>>

Next ==
  \/ \E t \in Token : HelpNumber(t) \/ HelpVariable(t) \/ HelpOperator(t) \/ ForeignToken(t)
  \/ HelpParenLeft \/ HelpParenRight \/ SkipBlank
  \/ EndOfText \/ EvaluateOnce

Spec == Init /\ [][Next]_vars

-----------------------------------------------------------------------------
(* The reference: the meaning of an expression by its grammar, products    *)
(* before sums, and both from the left, in the arithmetic of a library.  A *)
(* token without a number and a division by zero make an error of all that *)
(* they are part of.                                                       *)

NoExpression == [kind |-> "none"]

Both(strict, op, x, y) ==
  IF NoExpression \in {x, y} THEN NoExpression
  ELSE IF FormulaError \in {x, y} \/ (op = "/" /\ y = Value(Zero)) THEN FormulaError
  ELSE Value(Apply(strict, op, x.value, y.value))

\* The "(" among the first k tokens of a text that are not closed there.
Depth(text, k) ==
  Cardinality({n \in 1..k : text[n] = "("}) - Cardinality({n \in 1..k : text[n] = ")"})

\* Which of these operators, in the tokens i to j, are outside of parentheses?
Outside(text, i, j, ops) == {k \in i..j : text[k] \in ops /\ Depth(text, k) = Depth(text, i - 1)}

\* The last sign, or else the last product, is the outermost operation.
Outermost(text, i, j) ==
  LET signs     == Outside(text, i, j, Signs)
      operators == IF signs # {} THEN signs ELSE Outside(text, i, j, Products)
  IN CHOOSE k \in operators : \A o \in operators : o <= k

\* The meaning of the tokens i to j, by those of shorter spans.
MeaningOf(strict, text, span, i, j) ==
  IF j < i THEN NoExpression
  ELSE IF Outside(text, i, j, Operator) # {}
       THEN LET k == Outermost(text, i, j)
            IN IF k \in {i, j} THEN NoExpression
               ELSE Both(strict, text[k], span[<<i, k - 1>>], span[<<k + 1, j>>])
  ELSE IF text[i] = "(" /\ text[j] = ")" THEN span[<<i + 1, j - 1>>]
  ELSE IF i < j \/ text[i] \notin (Numeral \cup Name) \ Invalid THEN NoExpression
  ELSE IF text[i] \in Numbered(strict) THEN Value(Worth(strict, text[i]))
  ELSE FormulaError

Meaning(strict, text) ==
  LET span[at \in (DOMAIN text) \X (0..Len(text))] == MeaningOf(strict, text, span, at[1], at[2])
  IN IF text = <<>> THEN NoExpression ELSE span[<<1, Len(text)>>]

\* A prefix of an expression becomes one by an operand, if one is missing, and
\* its closing parentheses.
CanBeContinued(text) ==
  LET Closed(s) == s \o [i \in 1..(Count(s, "(") - Count(s, ")")) |-> ")"]
  IN \E s \in {text} \cup {Append(text, n) : n \in Numeral} :
       Count(s, "(") >= Count(s, ")") /\ Meaning(Lenient, Closed(s)) # NoExpression

Misnamed == ToSet(varList) \ CellName

\* The constructor, which only looks at each token and the one before it and
\* counts parentheses, takes exactly the expressions, and refuses a text at
\* the first token after which nothing could make it one.
TextsAreExpressions ==
  /\ status \in {"formula", "evaluated"} => Meaning(Lenient, tokens) # NoExpression
  /\ status = "unfinished" => Meaning(Lenient, tokens) = NoExpression
  /\ status # "refused" <=> tokens = <<>> \/ CanBeContinued(tokens)

\* Evaluate returns the value of the expression, or a FormulaError if it has
\* none, and does not throw (Formula.cs:296-300).  Only names like A1B1 are
\* apart, which the constructor takes and Evaluate passes over: a sum with one
\* is left without a value, as an error of another name or by an exception.
EvaluateIsMeaning ==
  status = "evaluated" =>
    IF Misnamed = {} THEN result[1] = Meaning(Lenient, tokens)
    ELSE ToSet(tokens) \cap Products = {} => result[1].kind # "value"

\* The server accepts every formula of the client, though it checks it by other
\* rules, but for numerals with an exponent and names that are no cell names.
\* The names it reads are those the client depends on once they are in capital
\* letters and the blanks are left out, and the very same ones only of a text
\* without a blank and with no name in small letters: the server does neither.
ServerTakesFormulas ==
  status = "formula" /\ Misnamed = {} /\ ToSet(tokens) \cap Exponent = {} =>
    LET names == ToSet(GetVariables(tokens, blanks))
    IN /\ EvaluateFormula(tokens)
       /\ {Normal[n] : n \in names \ {Blank}} = ToSet(varList)
       /\ names = ToSet(varList) <=>
            blanks = <<>> /\ \A n \in ToSet(tokens) \cap Name : Normal[n] = n

\* The older library returns the value, in its own arithmetic, of every formula
\* of the client whose blanks it can bear, and throws ArgumentException where
\* the formula has none: at a numeral that is no whole number, a name without a
\* number as it is written or that is no cell name, and a division by zero.
EvaluatorIsMeaning ==
  status = "evaluated" =>
    EvaluateExpression(tokens, blanks) =
      IF Spaced(tokens, blanks) \/ Meaning(Strict, tokens) = FormulaError THEN ArgumentException
      ELSE Meaning(Strict, tokens)

=============================================================================
