--------------------------- MODULE MarketMessages ---------------------------
(***************************************************************************)
(* The market data messages of the exchange and their parsers: the strict  *)
(* one of binance_connector/binance/parser.cpp, and the loose ones of      *)
(* binance/ and binance_data_parser/, the same code under two names.       *)
(*                                                                         *)
(* A JSON object is a function from keys to values [json, value]: a        *)
(* "number" is not negative, a "string" is the characters of Decimals, a   *)
(* "levels" array has arrays of values.  What a parser reads of a message  *)
(* is a table of the keys its fields come from.  A kline's fields lie one  *)
(* object deeper, under "k"; the model's kline is that inner object.       *)
(* A ticker's priceChangePercent is the text it is read from: std::stod is *)
(* not modelled.                                                           *)
(***************************************************************************)
EXTENDS Decimals

Json(type, v) == [json |-> type, value |-> v]

\* getRequired, and simdjson's operator[]: a missing key is refused.
Required(message, key, type) ==
  IF key \in DOMAIN message /\ message[key].json = type
  THEN <<message[key].value>>
  ELSE Refused

\* Of the parts read, all or nothing.
Whole(parts) ==
  IF \E p \in DOMAIN parts : parts[p] = Refused
  THEN Refused
  ELSE <<[p \in DOMAIN parts |-> parts[p][1]]>>

-----------------------------------------------------------------------------
\* What the fields are read with: each of the two parsers has its own decimals.

DecimalOf(json, parser) ==
  IF json.json # "string" THEN Refused
  ELSE IF parser = "strict" THEN parseDecimal(json.value) ELSE looseParseDecimal(json.value)

\* A level that is no array is refused as one that is too short, by both parsers.
parseBookLevel(level, parser) ==
  IF Len(level) < 2 THEN Refused
  ELSE Whole([price |-> DecimalOf(level[1], parser), quantity |-> DecimalOf(level[2], parser)])

parseLevels(levels, parser) ==
  Whole([i \in DOMAIN levels |-> parseBookLevel(levels[i], parser)])

\* A price or a quantity; a timestamp, an id or a count; a text, a flag.
Price(key) == <<key, "decimal">>
Unsigned(key) == <<key, "number">>
Text(key) == <<key, "string">>
Flag(key) == <<key, "flag">>
Levels(key) == <<key, "levels">>

Read(message, table, parser) ==
  Whole([field \in DOMAIN table |->
           LET key == table[field][1]
               type == table[field][2]
               json == Required(message, key, IF type = "decimal" THEN "string" ELSE type)
           IN  IF json = Refused THEN Refused
               ELSE IF type = "decimal" THEN DecimalOf(Json("string", json[1]), parser)
               ELSE IF type = "levels" THEN parseLevels(json[1], parser)
               ELSE json])

-----------------------------------------------------------------------------
\* The strict parser

StrictDepthUpdate ==
  [firstUpdateId |-> Unsigned("U"), lastUpdateId |-> Unsigned("u"),
   exchangeTimestamp |-> Unsigned("E"), bids |-> Levels("b"), asks |-> Levels("a")]

StrictSnapshot ==
  [lastUpdateId |-> Unsigned("lastUpdateId"), bids |-> Levels("bids"), asks |-> Levels("asks")]

StrictTrade ==
  [sequence |-> Unsigned("t"), exchangeTimestamp |-> Unsigned("T"),
   price |-> Price("p"), quantity |-> Price("q"), side |-> Flag("m")]

Strict ==
  [depthUpdate |-> StrictDepthUpdate, depthSnapshot |-> StrictSnapshot, trade |-> StrictTrade]

strictParse(kind, message) ==
  LET read == Read(message, Strict[kind], "strict")
  IN  IF read # Refused /\ kind = "trade"
      THEN <<[read[1] EXCEPT !.side = IF @ THEN "Sell" ELSE "Buy"]>>
      ELSE read

-----------------------------------------------------------------------------
\* The loose parsers

LooseDepthSnapshot ==
  [lastUpdateId |-> Unsigned("lastUpdateId"), bids |-> Levels("bids"), asks |-> Levels("asks")]

LooseDepthUpdate ==
  [exchangeTimestamp |-> Unsigned("E"), firstUpdateId |-> Unsigned("U"),
   lastUpdateId |-> Unsigned("u"), bids |-> Levels("b"), asks |-> Levels("a")]

\* Mutant: both timestamps are read from one key, as the samples allow.
LooseTradeOneTime ==
  [symbol |-> Text("s"), tradeId |-> Unsigned("t"), price |-> Price("p"),
   quantity |-> Price("q"), exchangeTimestamp |-> Unsigned("T"),
   tradeTimestamp |-> Unsigned("T"), buyerIsMaker |-> Flag("m")]

LooseTrade ==
  [symbol |-> Text("s"), tradeId |-> Unsigned("t"), price |-> Price("p"),
   quantity |-> Price("q"), exchangeTimestamp |-> Unsigned("E"),
   tradeTimestamp |-> Unsigned("T"), buyerIsMaker |-> Flag("m")]

LooseAggregateTrade ==
  [symbol |-> Text("s"), aggregateTradeId |-> Unsigned("a"), price |-> Price("p"),
   quantity |-> Price("q"), firstTradeId |-> Unsigned("f"), lastTradeId |-> Unsigned("l"),
   tradeTimestamp |-> Unsigned("T"), exchangeTimestamp |-> Unsigned("E"),
   buyerIsMaker |-> Flag("m")]

LooseBookTicker ==
  [symbol |-> Text("s"), updateId |-> Unsigned("u"), bidPrice |-> Price("b"),
   bidQuantity |-> Price("B"), askPrice |-> Price("a"), askQuantity |-> Price("A")]

LooseKline ==
  [symbol |-> Text("s"), interval |-> Text("i"), openTimestamp |-> Unsigned("t"),
   closeTimestamp |-> Unsigned("T"), firstTradeId |-> Unsigned("f"),
   lastTradeId |-> Unsigned("L"), openPrice |-> Price("o"), highPrice |-> Price("h"),
   lowPrice |-> Price("l"), closePrice |-> Price("c"), volume |-> Price("v"),
   tradeCount |-> Unsigned("n"), quoteAssetVolume |-> Price("q"),
   takerBuyBaseAssetVolume |-> Price("V"), takerBuyQuoteAssetVolume |-> Price("Q"),
   closed |-> Flag("x")]

LooseTicker ==
  [symbol |-> Text("s"), priceChange |-> Price("p"), priceChangePercent |-> Text("P"),
   weightedAveragePrice |-> Price("w"), previousClosePrice |-> Price("x"),
   lastPrice |-> Price("c"), lastQuantity |-> Price("Q"), bidPrice |-> Price("b"),
   bidQuantity |-> Price("B"), askPrice |-> Price("a"), askQuantity |-> Price("A"),
   openPrice |-> Price("o"), highPrice |-> Price("h"), lowPrice |-> Price("l"),
   volume |-> Price("v"), quoteAssetVolume |-> Price("q"), openTimestamp |-> Unsigned("O"),
   closeTimestamp |-> Unsigned("C"), firstTradeId |-> Unsigned("F"),
   lastTradeId |-> Unsigned("L"), tradeCount |-> Unsigned("n"),
   firstUpdateId |-> Unsigned("F"), lastUpdateId |-> Unsigned("L"),
   exchangeTimestamp |-> Unsigned("E")]

Loose ==
  [depthSnapshot |-> LooseDepthSnapshot, depthUpdate |-> LooseDepthUpdate,
   trade |-> LooseTrade, aggregateTrade |-> LooseAggregateTrade,
   bookTicker |-> LooseBookTicker, kline |-> LooseKline, ticker |-> LooseTicker]

\* The maps of a snapshot keep the first of two levels with the same price.
EachPriceOnce(levels) ==
  LET first == {i \in DOMAIN levels : \A j \in 1..(i - 1) : levels[j].price # levels[i].price}
  IN  [price \in {levels[i].price : i \in first} |->
         levels[CHOOSE i \in first : levels[i].price = price].quantity]

looseParse(kind, message) ==
  LET read == Read(message, Loose[kind], "loose")
  IN  IF read # Refused /\ kind = "depthSnapshot"
      THEN <<[read[1] EXCEPT !.bids = EachPriceOnce(@), !.asks = EachPriceOnce(@)]>>
      ELSE read

\* A depth update in the shape the rest of the system would take it in.
normalize(update) ==
  [firstUpdateId |-> update.firstUpdateId, lastUpdateId |-> update.lastUpdateId,
   exchangeTimestamp |-> update.exchangeTimestamp,
   bids |-> update.bids, asks |-> update.asks]

-----------------------------------------------------------------------------
\* The members of the structures the loose parsers fill.
Fields(kind) ==
  CASE kind = "depthSnapshot" -> {"lastUpdateId", "bids", "asks"}
    [] kind = "depthUpdate" ->
         {"firstUpdateId", "lastUpdateId", "exchangeTimestamp", "bids", "asks"}
    [] kind = "trade" ->
         {"symbol", "tradeId", "price", "quantity", "exchangeTimestamp", "tradeTimestamp",
          "buyerIsMaker"}
    [] kind = "aggregateTrade" ->
         {"symbol", "aggregateTradeId", "firstTradeId", "lastTradeId", "price", "quantity",
          "exchangeTimestamp", "tradeTimestamp", "buyerIsMaker"}
    [] kind = "bookTicker" ->
         {"symbol", "updateId", "bidPrice", "bidQuantity", "askPrice", "askQuantity"}
    [] kind = "kline" ->
         {"symbol", "interval", "openTimestamp", "closeTimestamp", "firstTradeId",
          "lastTradeId", "openPrice", "highPrice", "lowPrice", "closePrice", "volume",
          "tradeCount", "quoteAssetVolume", "takerBuyBaseAssetVolume",
          "takerBuyQuoteAssetVolume", "closed"}
    [] kind = "ticker" ->
         {"symbol", "priceChange", "priceChangePercent", "weightedAveragePrice",
          "previousClosePrice", "lastPrice", "lastQuantity", "bidPrice", "bidQuantity",
          "askPrice", "askQuantity", "openPrice", "highPrice", "lowPrice", "volume",
          "quoteAssetVolume", "openTimestamp", "closeTimestamp", "firstTradeId",
          "lastTradeId", "tradeCount", "firstUpdateId", "lastUpdateId", "exchangeTimestamp"}
=============================================================================
