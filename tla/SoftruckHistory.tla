--------------------------- MODULE SoftruckHistory ---------------------------
(***************************************************************************)
(* The history of a vehicle of Softruck.  HistoricoResumoService and       *)
(* HistoricoSoftruckService ask for every day of the period, Concorrencia  *)
(* days at a time: for its trips (by-keys), and for the map then for its   *)
(* points and alarms (geom).  GeomPipelineProcessor simplifies the route   *)
(* and drops the alarms that repeat another.                               *)
(*                                                                         *)
(* ByKeys and Geom are the answers for a day, in any order within a batch; *)
(* Ponto and Alarme give the features of an answer one by one.  Positions  *)
(* lie on a line in units of 5 m, instants are seconds.                    *)
(***************************************************************************)
EXTENDS SeqParts, SequencesExt

CONSTANTS
  Dias,         \* bound: the period has the days 1..Dias
  Concorrencia, \* MAX_CONCORRENCIA
  MaxFeatures   \* bound: features of an answer

VARIABLES
  pedido,    \* the request: "softruck" or "softruck_geom"
  entrada,   \* the answers of Softruck, of each day or feature by feature
  estado,    \* "aberto", "respondido" or "erro"
  resposta   \* what the services make of the answers

vars == <<pedido, entrada, estado, resposta>>

\* A request that fails reads like a day without data.
SemDados == [segs |-> <<>>, enterprise |-> FALSE]

Init ==
  /\ \/ pedido = "softruck" /\ entrada = [byKeys |-> <<>>, geom |-> <<>>]
     \/ pedido = "softruck_geom" /\ entrada = <<>>
  /\ estado = "aberto"
  /\ resposta = <<>>

-----------------------------------------------------------------------------
(* The trips *)

Valido(s) == s.dis > 0 /\ s.dur > 0

PorInicio(segs)  == Sorted(segs, [i \in DOMAIN segs |-> segs[i].inicio])
Validos(segs)    == Those(segs, {i \in DOMAIN segs : Valido(segs[i])})
ComViagens(dias) == Those(dias, {i \in DOMAIN dias : dias[i].items # <<>>})

\* mapearDiaItems: the valid trips of the day, by their start.
DiaItems(dia) == PorInicio(Validos(dia.segs))

\* Mutant: a day counts that has a trip of any kind.
ResumoDeTodos(byKeys) ==
  ComViagens([d \in 1..Dias |-> [acc |-> d, items |-> byKeys[d].segs]])

\* obterResumo: the days that have a valid trip.  A trip without an id is left out too,
\* which no answer here has.
Resumo(byKeys) ==
  ComViagens([d \in 1..Dias |-> [acc |-> d, items |-> DiaItems(byKeys[d])]])

\* mapearSegmentosDoItem, day by day: every trip.
Segmentos(byKeys) == FlattenSeq([d \in 1..Dias |-> byKeys[d].segs])

\* buildRouteSegments
RouteSegments(segs) == PorInicio(Validos(segs))

Distancia(segs) == SumOf([i \in DOMAIN segs |-> segs[i].dis], Len(segs))

\* calcularResumoSummary and calcularSumario: the first adds up the valid trips, the
\* second all of them.
SumarioDoResumo(dias) ==
  LET segs == FlattenSeq([k \in DOMAIN dias |-> dias[k].items])
  IN  [segmentos |-> Len(segs), distancia |-> Distancia(segs), dias |-> Len(dias)]

Sumario(byKeys) ==
  [segmentos |-> Len(Segmentos(byKeys)), distancia |-> Distancia(Segmentos(byKeys)),
   dias |-> Cardinality({d \in 1..Dias : byKeys[d].segs # <<>>})]

\* obterRotas: some day names the enterprise, without which geom is not asked.
Enterprise(byKeys) == \E d \in 1..Dias : byKeys[d].enterprise

\* gerarRelatorioPdf: a line for every trip, and its day in the chart.
Pdf(byKeys) ==
  [linhas |-> Segmentos(byKeys), sumario |-> Sumario(byKeys),
   grafico |-> [d \in {e \in 1..Dias : byKeys[e].segs # <<>>} |-> Len(byKeys[d].segs)]]

-----------------------------------------------------------------------------
(* The map *)

Abs(x) == IF x < 0 THEN -x ELSE x
Rumo(p, q) == IF p.pos < q.pos THEN 1 ELSE -1

PorInstante(ps) == Sorted(ps, [i \in DOMAIN ps |-> ps[i].act])

\* Mutant: distances are taken from the point before, kept or not.
SimplificadaDoAnterior(ps) ==
  LET s == PorInstante(ps)
  IN  IF Len(ps) <= 2 THEN ps
      ELSE LET far == {i \in 2..Len(s) - 1 : Abs(s[i].pos - s[i - 1].pos) >= 6}
               all == {1, Len(s)} \cup far
           IN  [k \in 1..Cardinality(all) |-> s[SetToSortSeq(all, <)[k]]]

\* simplifyRoutePoints: between the first and the last point, one stays that is 10 m
\* from the last kept and turns from the last course, or that is 30 m from it.
\* One or two points stay as they came.
Simplificada(ps) ==
  LET s == PorInstante(ps)
      upTo[n \in 0..Len(s)] ==   \* those kept of the first n, and the last course
        IF n < 2 THEN [kept |-> <<s[1]>>, rumo |-> 0]
        ELSE LET a == upTo[n - 1]
                 p == s[n]
                 q == Last(a.kept)
             IN  IF Abs(p.pos - q.pos) < 2 THEN a
                 ELSE [kept |-> IF \/ a.rumo # 0 /\ a.rumo # Rumo(q, p)
                                   \/ Abs(p.pos - q.pos) >= 6
                                THEN Append(a.kept, p) ELSE a.kept,
                       rumo |-> Rumo(q, p)]
  IN  IF Len(ps) <= 2 THEN ps
      ELSE Append(upTo[Len(s) - 1].kept, Last(s))

\* parseEventType, for tags, values and messages in lower case; the first that fits.
TipoDoEvento(t, v, m) ==
  CASE m = "shake_alert" -> "SHAKE_ALERT"
    [] t \in {"ignition_on", "ign_on", "engine_on"}
       \/ (t \in {"ignition", "ign"} /\ v = "on") -> "IGNITION_ON"
    [] t \in {"ignition_off", "ign_off", "engine_off"}
       \/ (t \in {"ignition", "ign"} /\ v = "off") -> "IGNITION_OFF"
    [] t \in {"overspeed", "overspeeding", "speeding", "high_speed", "over_speed",
              "harsh_accel", "harsh_acceleration"}
       \/ v = "overspeed" \/ m = "overspeed" -> "OVERSPEED"
    [] t \in {"panic", "sos", "panic_button"} \/ m \in {"panic", "sos"} -> "PANIC"
    [] t \in {"geofence_enter", "geo_in", "zone_enter", "enter_geo"}
       \/ (t \in {"geofence", "geo_fence"} /\ v \in {"enter", "in"}) -> "GEOFENCE_ENTER"
    [] t \in {"geofence_exit", "geo_out", "zone_exit", "exit_geo"}
       \/ (t \in {"geofence", "geo_fence"} /\ v \in {"exit", "out"}) -> "GEOFENCE_EXIT"
    [] t \in {"battery_low", "low_battery", "internal_battery_low", "battery_critical",
              "int_battery"}
       \/ (t = "battery" /\ v \in {"low", "critical"}) -> "LOW_BATTERY"
    [] t \in {"power_cut", "external_power_cut", "power_lost", "main_power_lost",
              "ext_power_cut", "power_off_ext"} -> "POWER_CUT"
    [] t \in {"gps_signal_lost", "gps_lost", "no_gps", "gps_fail", "gps_antenna_cut",
              "gps_jamming", "gps_error"} -> "GPS_LOST"
    [] t \in {"towing", "tow", "vehicle_tow", "anti_theft", "antitheft", "stolen", "theft"}
       \/ (t = "accelerometer" /\ v = "vibration") -> "TOWING"
    [] OTHER -> "UNKNOWN"

Tipo(a) == TipoDoEvento(a.tag, a.val, a.msg)

Classificado(a) == a.tag # "accelerometer" /\ Tipo(a) # "UNKNOWN"

\* shouldMergeNearbyEvents: of one type, at most 300 m and five minutes apart.
Repete(a, b) ==
  /\ Tipo(a) = Tipo(b)
  /\ Abs(a.pos - b.pos) <= 60
  /\ Abs(a.act - b.act) <= 300

\* Mutant: an alarm repeats another if it repeats the one before.
AlarmesContraOAnterior(as) ==
  LET known == SelectSeq(as, Classificado)
      kept  == {i \in DOMAIN known : i = 1 \/ ~Repete(known[i - 1], known[i])}
  IN  [k \in 1..Cardinality(kept) |-> known[SetToSortSeq(kept, <)[k]]]

\* filterAndDeduplicateAlarms: neither those of the accelerometer nor unknown ones,
\* nor one that repeats one kept before it.
Alarmes(as) ==
  LET kept[n \in 0..Len(as)] ==
        IF n = 0 THEN <<>>
        ELSE LET ks == kept[n - 1] IN
             IF Classificado(as[n]) /\ \A k \in Range(ks) : ~Repete(k, as[n])
             THEN Append(ks, as[n]) ELSE ks
  IN  kept[Len(as)]

\* GeomPipelineProcessor.process
Pipeline(features) ==
  LET ofType(t) == Those(features, {i \in DOMAIN features : features[i].type = t})
  IN  [rota |-> Simplificada(ofType("DETAILED")), alarmes |-> Alarmes(ofType("ALARM"))]

-----------------------------------------------------------------------------
(* The days *)

\* processarComConcorrencia: the days of a batch are asked when all of the batches
\* before it are answered.
Asked(answers, d) ==
  /\ d \notin DOMAIN answers
  /\ \A e \in 1..d - 1 : (e - 1) \div Concorrencia < (d - 1) \div Concorrencia
                           => e \in DOMAIN answers

Complete(answers) == DOMAIN answers = 1..Dias

\* The answers, with a for day d.
ComDia(answers, d, a) ==
  [e \in DOMAIN answers \cup {d} |-> IF e = d THEN a ELSE answers[e]]

Open(p) == pedido = p /\ estado = "aberto"

\* The trips of day d, or SemDados where the request fails.
ByKeys(d, a) ==
  /\ Open("softruck")
  /\ Asked(entrada.byKeys, d)
  /\ entrada' = [entrada EXCEPT !.byKeys = ComDia(@, d, a)]
  /\ UNCHANGED <<pedido, estado, resposta>>

\* The features of day d, TRUE, or FALSE where the request fails.
Geom(d, ok) ==
  /\ Open("softruck")
  /\ Complete(entrada.byKeys) /\ Enterprise(entrada.byKeys)
  /\ Asked(entrada.geom, d)
  /\ entrada' = [entrada EXCEPT !.geom = ComDia(@, d, ok)]
  /\ UNCHANGED <<pedido, estado, resposta>>

\* obterResumo, gerarRelatorioPdf and obterRotas, each of which asks for itself; here
\* they get the same answers.
Answer ==
  /\ Open("softruck")
  /\ Complete(entrada.byKeys)
  /\ Enterprise(entrada.byKeys) => Complete(entrada.geom)
  /\ LET by == entrada.byKeys IN
     resposta' = [resumo  |-> [dias |-> Resumo(by), sumario |-> SumarioDoResumo(Resumo(by))],
                  pdf     |-> Pdf(by),
                  rotas   |-> [segments |-> RouteSegments(Segmentos(by)),
                               sumario  |-> Sumario(by),
                               dias     |-> {d \in DOMAIN entrada.geom : entrada.geom[d]}]]
  /\ estado' = "respondido"
  /\ UNCHANGED <<pedido, entrada>>

\* The vehicle is not found, the login fails a second time, or the PDF fails: no
\* answer, whatever the other days gave.
AnswerError ==
  /\ Open("softruck")
  /\ estado' = "erro"
  /\ UNCHANGED <<pedido, entrada, resposta>>

-----------------------------------------------------------------------------
(* The features *)

Agora == IF entrada = <<>> THEN 0 ELSE Last(entrada).act
Aqui  == IF entrada = <<>> THEN 0 ELSE Last(entrada).pos

Feature(f) ==
  /\ Open("softruck_geom")
  /\ Len(entrada) < MaxFeatures
  /\ entrada' = Append(entrada, f)
  /\ UNCHANGED <<pedido, estado, resposta>>

Ponto(passo) == Feature([type |-> "DETAILED", act |-> Agora + 30, pos |-> Aqui + passo])

Alarme(gap, passo, tag, val, msg) ==
  Feature([type |-> "ALARM", act |-> Agora + gap, pos |-> Aqui + passo,
           tag |-> tag, val |-> val, msg |-> msg])

\* The features may come in the opposite order.
AnswerGeom(descending) ==
  /\ Open("softruck_geom")
  /\ resposta' = Pipeline(IF descending THEN Reverse(entrada) ELSE entrada)
  /\ estado' = "respondido"
  /\ UNCHANGED <<pedido, entrada>>

\* What Softruck has of a day: nothing, or trips, some of no length.
Answers(d) ==
  LET ok(k) == [inicio |-> 10 * d + k, dis |-> 7, dur |-> 60]
      idle  == [inicio |-> 10 * d, dis |-> 0, dur |-> 60]
  IN  {SemDados} \cup [segs : {<<>>, <<ok(2), ok(1)>>, <<idle>>, <<ok(1), idle>>}, enterprise : BOOLEAN]

Next ==
  \/ \E d \in 1..Dias : \E a \in Answers(d) : ByKeys(d, a)
  \/ \E d \in 1..Dias, ok \in BOOLEAN : Geom(d, ok)
  \/ Answer
  \/ AnswerError
  \/ \E p \in {-2, 1, 3, 6} : Ponto(p)
  \/ \E g \in {150, 301}, tag \in {"panic", "sos", "accelerometer", "idle"} :
       Alarme(g, 40, tag, "vibration", "")
  \/ \E b \in BOOLEAN : AnswerGeom(b)

Spec == Init /\ [][Next]_vars

-----------------------------------------------------------------------------
(* Properties *)

Answered(p) == pedido = p /\ estado = "respondido"

\* The three views of a period tell the same trips whatever days failed and in
\* whatever order the days answered: the trips of the summary are, in order, the
\* segments of the map and are lines of the PDF; totals differ by trips of no length
\* or duration alone; and the days whose points Softruck gave are drawn if any day
\* of the period names the enterprise.
ViewsTellTheSameTrips ==
  Answered("softruck") =>
    LET r == resposta
        trips == FlattenSeq([k \in DOMAIN r.resumo.dias |-> r.resumo.dias[k].items])
        named == \E d \in 1..Dias : entrada.byKeys[d].enterprise
    IN
    /\ trips = r.rotas.segments
    /\ Range(trips) \subseteq Range(r.pdf.linhas)
    /\ \A s \in Range(r.pdf.linhas) : s \in Range(trips) \/ s.dis = 0 \/ s.dur = 0
    /\ r.resumo.sumario.distancia = r.rotas.sumario.distancia
    /\ r.resumo.sumario.dias <= Cardinality(DOMAIN r.pdf.grafico)
    /\ named <=> Complete(entrada.geom)

\* The simplified route stays by the track: it has points of it alone, in order when
\* there are more than two, and every point of the track has one drawn at or before it
\* that is less than 30 m away, and one drawn at or after it: so the route starts with
\* the earliest point and ends with the latest.
RouteStaysByTheTrack ==
  Answered("softruck_geom") =>
    LET track == {f \in Range(entrada) : f.type = "DETAILED"}
        rota  == resposta.rota
    IN
    /\ Range(rota) \subseteq track
    /\ Cardinality(track) > 2 =>
         \A i, j \in DOMAIN rota : i < j => rota[i].act <= rota[j].act
    /\ \A p \in track :
         /\ \E q \in Range(rota) : q.act <= p.act /\ Abs(q.pos - p.pos) < 6
         /\ \E q \in Range(rota) : p.act <= q.act

\* Alarms are told once and none is lost: no two on the map repeat each other, and
\* one of a known type that is not there repeats one that is.
AlarmsAreToldOnce ==
  Answered("softruck_geom") =>
    LET as == resposta.alarmes
    IN
    /\ \A i, j \in DOMAIN as : i # j => ~Repete(as[i], as[j])
    /\ \A f \in Range(entrada) :
         f.type = "ALARM" =>
           IF f.tag = "accelerometer" \/ Tipo(f) = "UNKNOWN"
           THEN f \notin Range(as) ELSE \E a \in Range(as) : Repete(a, f)
=============================================================================
