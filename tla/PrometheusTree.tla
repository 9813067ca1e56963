---------------------------- MODULE PrometheusTree ----------------------------
(***************************************************************************)
(* The object tree of drivers/prometheus.py: metrics and their labels,     *)
(* scrape jobs and the metrics they scrape.  A server c has                *)
(*   series   [name, labels (a map)], job being one of the labels;         *)
(*   targets  in the order of their instances: [job, instance, metrics     *)
(*            (how many it was last scraped for), samples, error];         *)
(*   slow     do the queries for samples take longer than a sample may?    *)
(*   mode     the session's query_mode.                                    *)
(* A metric's name is put into queries as it is, so that one which is no   *)
(* identifier makes them fail.                                             *)
(***************************************************************************)
EXTENDS ExploreAnswers

CONSTANT Identifier(_)   \* is the metric's name an identifier?

FIND_PATHS == [metric |-> <<<<"metrics", "*">>>>,
               label  |-> <<<<"metrics", "*", "*">>>>,
               job    |-> <<<<"jobs", "*">>>>]

SeriesOf(c, metric) == {x \in c.series : x.name = metric}
LabelsOf(c, metric) == UNION {DOMAIN x.labels : x \in SeriesOf(c, metric)}
ScrapedBy(c, job) ==
  {x \in c.series : "job" \in DOMAIN x.labels /\ x.labels["job"] = job}

\* The first values of a label: of every series of the metric that has it.
_label_values_sample(c, metric, label) ==
  IF c.slow THEN <<>>
  ELSE FirstOf(SetToSeq({x.labels[label] :
                           x \in {y \in SeriesOf(c, metric) : label \in DOMAIN y.labels}}),
               SampleSize)

LabelField(c, metric, label) ==
  PlainField(label, FALSE, _label_values_sample(c, metric, label))

_describe_metric(c, metric) ==
  EntityDescription(metric, MapSeq(SetToSeq(LabelsOf(c, metric)),
                                   LAMBDA l : LabelField(c, metric, l)))

\* One record for each target, with an error in all of them or in none.
_describe_job(c, job) ==
  LET targets == SelectSeq(c.targets, LAMBDA t : t.job = job)
      shown   == \E t \in ToSet(targets) : t.error
      Record(t) == [is |-> "record", name |-> t.instance, metrics |-> t.metrics,
                    samples |-> t.samples, error |-> IF shown THEN t.error ELSE Null]
  IN  IF targets = <<>> THEN Nothing ELSE Listing(MapSeq(targets, Record))

\* A metric is the same under metrics and under a job.
MetricAt(p) == Matches(p, <<"metrics", "*">>) \/ Matches(p, <<"jobs", "*", "*">>)
LabelAt(p)  == Matches(p, <<"metrics", "*", "*">>) \/ Matches(p, <<"jobs", "*", "*", "*">>)

-----------------------------------------------------------------------------
MetricItems(series) ==
  Items(SetToSeq({ExploreItem(x.name, "metric") : x \in series}))

explore_list(c, p) ==
  CASE Matches(p, <<>>) ->
         Items(<<ExploreItem("metrics", "group"), ExploreItem("jobs", "group"),
                 ExploreItem("configuration", "configuration"),
                 ExploreItem("runtime", "settings")>>)
    [] p = <<"metrics">> -> MetricItems(c.series)
    [] MetricAt(p) ->
         OrFailure(Identifier(Last(p)),
           Items(SetToSeq({ExploreItem(l, "label") : l \in LabelsOf(c, Last(p))})))
    [] p = <<"jobs">> ->
         Items(SetToSeq({ExploreItem(t.job, "job") : t \in ToSet(c.targets)}))
    [] Matches(p, <<"jobs", "*">>) -> MetricItems(ScrapedBy(c, p[2]))
    [] OTHER -> NoItems

explore_describe(c, p) ==
  CASE MetricAt(p) -> OrFailure(Identifier(Last(p)), _describe_metric(c, Last(p)))
    [] LabelAt(p) -> OrFailure(Identifier(p[Len(p) - 1]),
                               LabelField(c, p[Len(p) - 1], Last(p)))
    [] p \in {<<"configuration">>, <<"runtime">>} -> [is |-> "document"]
    [] Matches(p, <<"jobs", "*">>) -> _describe_job(c, p[2])
    [] OTHER -> Nothing

\* The metric's bare name as a query: no range query.
explore_preview(c, p) ==
  CASE MetricAt(p) ->
         OrFailure(Identifier(Last(p)) /\ c.mode = "instant",
                   [is |-> "rows", of |-> SetToSeq(SeriesOf(c, Last(p)))])
    [] OTHER -> Nothing
=============================================================================
