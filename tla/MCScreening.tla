----------------------------- MODULE MCScreening -----------------------------
EXTENDS Screening
CONSTANTS NaN, Null, Other

MCFieldNames == {"sector", "revenue", "ebitda", "geography", "ask_price",
                 "deal_type"}

MCTexts == {"Health", "health", "health care", "$1,2", "12", "12M"}

MCNumberOf ==
    [t \in MCTexts |-> IF t \in {"$1,2", "12"} THEN 12 ELSE NaN]

MCNormal == [t \in MCTexts |-> IF t = "Health" THEN "health" ELSE t]

MCWithin == {<<t, t>> : t \in MCTexts}
              \cup {<<"health", "health care">>, <<"12", "12M">>}

(* Answers: sector and revenue vary, n of the other four are found, with a *)
(* confidence of their own.                                                *)
Field(name, s, c, v) ==
    [name |-> name, status |-> s, confidence |-> c, value |-> v]

Others == <<"ebitda", "geography", "ask_price", "deal_type">>

Answer(sector, revenue, n, c) ==
    <<Field("sector", IF sector = Null THEN "MISSING" ELSE "FOUND", "HIGH",
            sector),
      Field("revenue", IF revenue = Null THEN "MISSING" ELSE "INFERRED", c,
            revenue)>>
    \o [i \in 1 .. 4 |-> IF i <= n THEN Field(Others[i], "FOUND", c, "12")
                                   ELSE Field(Others[i], "MISSING", "LOW", Null)]

MCResponses ==
    {Answer(s, r, n, c) : s \in {"Health", Null}, r \in {"$1,2", "12M", Null},
                          n \in {1, 4}, c \in {"HIGH", "LOW"}}
    \cup {Answer("Health", Other, 4, "HIGH"),       \* valid, but not storable
          Tail(Answer("Health", "12", 4, "HIGH")),  \* a field left out
          <<>>}

Scalar(t, n) == [json |-> TRUE, text |-> t, number |-> n, list |-> FALSE,
                 items |-> {}]
ListOf(ts) == [json |-> TRUE, text |-> "12", number |-> NaN, list |-> TRUE,
               items |-> ts]
Malformed == [json |-> FALSE, text |-> "12", number |-> NaN, list |-> FALSE,
              items |-> {}]

C(field, type, operator, target, weight) ==
    [field |-> field, type |-> type, operator |-> operator, target |-> target,
     weight |-> weight]

MCConfigs ==
    {<<C("sector", "MUST_HAVE", "in", ListOf({"health", "12"}), 1),
       C("revenue", "DEALBREAKER", "gte", Scalar("12", 12), 2),
       C("ebitda", "NICE_TO_HAVE", "gt", Scalar("12", 12), 3),
       C("deal_type", "NICE_TO_HAVE", "eq", Scalar("12", 12), 0)>>,
     <<C("sector", "MUST_HAVE", "contains", Scalar("Health", NaN), 1),
       C("revenue", "NICE_TO_HAVE", "lt", Scalar("12", 12), 5),
       C("revenue", "MUST_HAVE", "lte", Scalar("12", 12), 2)>>,
     <<C("sector", "MUST_HAVE", "not_in", Scalar("12", 12), 4),
       C("sector", "DEALBREAKER", "ne", Scalar("12M", NaN), 3),
       C("geography", "MUST_HAVE", "eq", Malformed, 1)>>}
=============================================================================
