------------------------- MODULE CurrentStockProofs -------------------------
(***************************************************************************)
(* What the quotes agent returns is about the stock that was asked for, for *)
(* every set of stocks and whatever company names they carry.               *)
(***************************************************************************)
EXTENDS CurrentStock, TLAPS

\* The trade prices are only fetched for a stock whose own page was parsed.
StockKnown == pc = "tradePrices" => symbol \in Listed /\ info = symbol

\* A call that has not returned has no result.
NoResultYet == pc # "idle" => result = Pending

\* Unless somebody else quoted, the current stock is the one the call set, or
\* the session was replaced by one that has none.
StockSet == pc = "tradePrices" /\ ~ disturbed => current \in {symbol, "none"}

StockInv ==
    /\ TypeOK /\ StockKnown /\ NoResultYet /\ StockSet
    /\ NamedDataIsRight /\ UnknownNeverMislabeled /\ UndisturbedDataIsRight

-----------------------------------------------------------------------------
\* The results a call can come to are well typed.
LEMMA ResultTypes ==
    /\ Pending \in Results
    /\ \A error \in Errors : Failed(error) \in Results
    /\ \A about \in Listed \cup {"none"}, named \in BOOLEAN : Answer(about, named) \in Results
  BY DEF Pending, Failed, Answer, Results, Errors

\* A result that is not an answer shows nothing.
LEMMA NothingShown ==
    /\ Pending.outcome # "answer"
    /\ \A error \in Errors : Failed(error).outcome # "answer"
    /\ \A named \in BOOLEAN : Answer("none", named).about = "none"
  BY DEF Pending, Failed, Answer, Errors

\* Before the first call nothing is shown, whatever the current stock is.
LEMMA StockInit == Init => StockInv
<1> SUFFICES ASSUME Init PROVE StockInv
  OBVIOUS
<1>1. TypeOK
  BY ResultTypes DEF Init, TypeOK
<1> QED
  BY <1>1, NothingShown DEF Init, StockInv, StockKnown, NoResultYet, StockSet, Shown,
     NamedDataIsRight, UnknownNeverMislabeled, UndisturbedDataIsRight

\* A call that raises shows nothing, so it leaves all there is to say untouched.
LEMMA FailedStep ==
    ASSUME TypeOK', pc' = "idle", NEW error \in Errors, result' = Failed(error)
    PROVE  StockInv'
  BY NothingShown DEF StockInv, StockKnown, NoResultYet, StockSet, Shown,
     NamedDataIsRight, UnknownNeverMislabeled, UndisturbedDataIsRight

\* So does one that returns what the stock's own page says.
LEMMA AnswerStep ==
    ASSUME TypeOK', pc' = "idle", symbol' \in Listed, NEW named \in BOOLEAN,
           result' = Answer(symbol', named)
    PROVE  StockInv'
  BY DEF Answer, StockInv, StockKnown, NoResultYet, StockSet, Shown,
     NamedDataIsRight, UnknownNeverMislabeled, UndisturbedDataIsRight

\* Every step of the agent, of the other pages and of the session keeps StockInv.
LEMMA StockStep == StockInv /\ [Next]_vars => StockInv'
<1> SUFFICES ASSUME StockInv, [Next]_vars PROVE StockInv'
  OBVIOUS
<1> USE DEF Return
<1>1. ASSUME NEW t \in Tools, NEW s \in Symbols, Begin(t, s)
      PROVE  StockInv'
  <2>1. pc' = FirstPage[t] /\ FirstPage[t] \in {"quote", "stockInfo", "topBuyers"}
    BY <1>1 DEF Begin, FirstPage, Tools
  <2>2. TypeOK'
    BY <1>1, <2>1, ResultTypes DEF StockInv, TypeOK, Begin
  <2> QED
    BY <1>1, <2>1, <2>2, NothingShown DEF Begin, StockInv, StockKnown, NoResultYet, StockSet,
       Shown, NamedDataIsRight, UnknownNeverMislabeled, UndisturbedDataIsRight
<1>2. CASE FetchRaises
  <2>1. PICK error \in Errors : result' = Failed(error)
    BY <1>2 DEF FetchRaises, Errors
  <2>2. TypeOK'
    BY <1>2, <2>1, ResultTypes DEF StockInv, TypeOK, FetchRaises
  <2> QED
    BY <1>2, <2>1, <2>2, FailedStep DEF FetchRaises
<1>3. CASE Quote
  <2>1. CASE symbol \in Listed /\ result' = Answer(symbol, TRUE)
    <3>1. TypeOK' /\ pc' = "idle" /\ symbol' = symbol
      BY <1>3, <2>1, ResultTypes DEF StockInv, TypeOK, Quote
    <3> QED
      BY <2>1, <3>1, AnswerStep
  <2>2. ASSUME NEW error \in Errors, result' = Failed(error)
        PROVE  StockInv'
    <3>1. TypeOK' /\ pc' = "idle"
      BY <1>3, <2>2, ResultTypes DEF StockInv, TypeOK, Quote
    <3> QED
      BY <2>2, <3>1, FailedStep
  <2>3. "QuoteNotFound" \in Errors /\ "ParseError" \in Errors
    BY DEF Errors
  <2> QED
    BY <1>3, <2>1, <2>2, <2>3 DEF Quote
<1>4. CASE StockInfo
  <2>0. /\ current' \in Listed \cup {"none"}
        /\ symbol' = symbol /\ tool' = tool /\ expired' = expired /\ disturbed' = disturbed
    BY <1>4 DEF StockInfo, StockInv, TypeOK
  <2>1. CASE symbol \in Listed /\ info' = symbol /\ pc' = "tradePrices" /\ UNCHANGED result
    <3>1. TypeOK'
      BY <2>0, <2>1 DEF StockInv, TypeOK
    <3>2. current' = symbol /\ result = Pending
      BY <1>4, <2>1 DEF StockInfo, StockInv, NoResultYet
    <3> QED
      BY <2>0, <2>1, <3>1, <3>2, NothingShown DEF StockInv, StockKnown, NoResultYet, StockSet,
         Shown, NamedDataIsRight, UnknownNeverMislabeled, UndisturbedDataIsRight
  <2>2. CASE symbol \in Listed /\ info' = symbol /\ pc' = "idle"
             /\ result' = Answer(symbol, TRUE)
    <3>1. TypeOK'
      BY <2>0, <2>2, ResultTypes DEF StockInv, TypeOK
    <3> QED
      BY <2>0, <2>2, <3>1, AnswerStep
  <2>3. ASSUME NEW error \in Errors, result' = Failed(error), pc' = "idle", info' = info
        PROVE  StockInv'
    <3>1. TypeOK'
      BY <2>0, <2>3, ResultTypes DEF StockInv, TypeOK
    <3> QED
      BY <2>3, <3>1, FailedStep
  <2>4. "QuoteNotFound" \in Errors /\ "ParseError" \in Errors
    BY DEF Errors
  <2> QED
    BY <1>4, <2>1, <2>2, <2>3, <2>4 DEF StockInfo
<1>5. CASE TradePrices
  <2>0. /\ symbol \in Listed /\ info = symbol
        /\ UNCHANGED <<current, expired, tool, symbol, info, disturbed>>
        /\ pc' = "idle"
    BY <1>5 DEF TradePrices, StockInv, StockKnown
  <2>1. ASSUME NEW named \in BOOLEAN, current # "none",
               named => Company[current] = Company[info],
               result' = Answer(current, named)
        PROVE  StockInv'
    <3>1. TypeOK'
      BY <2>0, <2>1, ResultTypes DEF StockInv, TypeOK
    <3>2. result'.about = current /\ result'.named = named
      BY <2>1 DEF Answer
    <3>3. ~ disturbed => current = symbol
      BY <1>5, <2>1 DEF TradePrices, StockInv, StockSet
    <3> QED
      BY <2>0, <2>1, <3>1, <3>2, <3>3 DEF StockInv, StockKnown, NoResultYet, StockSet,
         Shown, NamedDataIsRight, UnknownNeverMislabeled, UndisturbedDataIsRight
  <2>2. ASSUME NEW error \in Errors, result' = Failed(error)
        PROVE  StockInv'
    <3>1. TypeOK'
      BY <2>0, <2>2, ResultTypes DEF StockInv, TypeOK
    <3> QED
      BY <2>0, <2>2, <3>1, FailedStep
  <2>3. "StaleTradePrices" \in Errors /\ "ParseError" \in Errors
    BY DEF Errors
  <2> QED
    BY <1>5, <2>1, <2>2, <2>3 DEF TradePrices
<1>6. CASE TopBuyers
  <2>0. UNCHANGED <<current, expired, tool, symbol, info, disturbed>>
    BY <1>6 DEF TopBuyers
  <2>1. CASE pc' = "topSellers" /\ UNCHANGED result
    BY <1>6, <2>0, <2>1 DEF TopBuyers, StockInv, TypeOK, StockKnown, NoResultYet, StockSet,
       Shown, NamedDataIsRight, UnknownNeverMislabeled, UndisturbedDataIsRight
  <2>2. CASE pc' = "idle" /\ result' = Failed("ParseError")
    <3>1. "ParseError" \in Errors
      BY DEF Errors
    <3>2. TypeOK'
      BY <2>0, <2>2, <3>1, ResultTypes DEF StockInv, TypeOK
    <3> QED
      BY <2>2, <3>1, <3>2, FailedStep
  <2> QED
    BY <1>6, <2>1, <2>2 DEF TopBuyers
<1>7. CASE TopSellers
  <2>0. UNCHANGED <<current, expired, tool, symbol, info, disturbed>> /\ pc' = "idle"
    BY <1>7 DEF TopSellers
  <2>1. CASE symbol \in Listed /\ result' = Answer(symbol, FALSE)
    <3>1. TypeOK'
      BY <2>0, <2>1, ResultTypes DEF StockInv, TypeOK
    <3> QED
      BY <2>0, <2>1, <3>1, AnswerStep
  <2>2. CASE result' = Answer("none", FALSE)
    <3>1. TypeOK'
      BY <2>0, <2>2, ResultTypes DEF StockInv, TypeOK
    <3>2. result'.about = "none"
      BY <2>2, NothingShown
    <3> QED
      BY <2>0, <3>1, <3>2 DEF StockInv, StockKnown, NoResultYet, StockSet,
         Shown, NamedDataIsRight, UnknownNeverMislabeled, UndisturbedDataIsRight
  <2>3. CASE result' = Failed("ParseError")
    <3>1. "ParseError" \in Errors
      BY DEF Errors
    <3>2. TypeOK'
      BY <2>0, <2>3, <3>1, ResultTypes DEF StockInv, TypeOK
    <3> QED
      BY <2>0, <2>3, <3>1, <3>2, FailedStep
  <2> QED
    BY <1>7, <2>1, <2>2, <2>3 DEF TopSellers
<1>8. ASSUME NEW s \in Listed, Quoted(s)
      PROVE  StockInv'
  BY <1>8 DEF Quoted, StockInv, TypeOK, StockKnown, NoResultYet, StockSet,
     Shown, NamedDataIsRight, UnknownNeverMislabeled, UndisturbedDataIsRight
<1>9. CASE Expire
  BY <1>9 DEF Expire, StockInv, TypeOK, StockKnown, NoResultYet, StockSet,
     Shown, NamedDataIsRight, UnknownNeverMislabeled, UndisturbedDataIsRight
<1>10. CASE LoggedInAgain
  BY <1>10 DEF LoggedInAgain, StockInv, TypeOK, StockKnown, NoResultYet, StockSet,
     Shown, NamedDataIsRight, UnknownNeverMislabeled, UndisturbedDataIsRight
<1>11. CASE UNCHANGED vars
  BY <1>11 DEF vars, StockInv, TypeOK, StockKnown, NoResultYet, StockSet,
     Shown, NamedDataIsRight, UnknownNeverMislabeled, UndisturbedDataIsRight
<1> QED
  BY <1>1, <1>2, <1>3, <1>4, <1>5, <1>6, <1>7, <1>8, <1>9, <1>10, <1>11 DEF Next

-----------------------------------------------------------------------------
\* StockInv holds in every state of every behaviour.
THEOREM StockInductive == Spec => []StockInv
  BY StockInit, StockStep, PTL DEF Spec

\* For every set of stocks, data that came under a company name is that
\* company's, whoever repointed the current stock between the two fetches.
THEOREM NamedRight == Spec => []NamedDataIsRight
<1>1. StockInv => NamedDataIsRight
  BY DEF StockInv
<1> QED
  BY <1>1, StockInductive, PTL

\* For every set of stocks, an unknown symbol is never answered with rows of
\* another stock.
THEOREM UnknownRight == Spec => []UnknownNeverMislabeled
<1>1. StockInv => UnknownNeverMislabeled
  BY DEF StockInv
<1> QED
  BY <1>1, StockInductive, PTL

\* The two requests back to back: if nobody else quotes, the data is about the
\* symbol asked for, named or not, and across a new login in between.
THEOREM UndisturbedRight == Spec => []UndisturbedDataIsRight
<1>1. StockInv => UndisturbedDataIsRight
  BY DEF StockInv
<1> QED
  BY <1>1, StockInductive, PTL
=============================================================================
