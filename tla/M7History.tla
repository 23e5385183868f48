------------------------------- MODULE M7History -------------------------------
(***************************************************************************)
(* The history of a vehicle of M7: HistoricoM7Service asks the M7 API for  *)
(* the vehicle and then for its trajetos (the summary and the first PDF)   *)
(* or for its GPS points (the second PDF and the map), and                 *)
(* M7ViagensBuilderService and sanitizarPontosGps make trips and routes of *)
(* them.                                                                   *)
(*                                                                         *)
(* Receive gives what M7 answers item by item, in chronological order; the *)
(* answer itself may come in the opposite order.  The vehicle runs along a *)
(* meridian, positions are counted in units of 10 m, instants in seconds,  *)
(* and the period asked for is the day before Midnight.                    *)
(***************************************************************************)
EXTENDS SeqParts, SequencesExt

CONSTANTS
  MaxPontos,    \* bound: points of an answer for the second PDF
  MaxRota,      \* bound: points of an answer for the map
  MaxTrajetos,  \* bound: trajetos of an answer
  Gaps,         \* seconds that may pass between two points
  Midnight      \* seconds from the first point to the end of the period

VARIABLES
  pedido,    \* the request: "pdf_v2", "rotas" or "trajetos"
  entrada,   \* what M7 has for it
  estado,    \* "aberto", "respondido" or "erro"
  resposta   \* what the service makes of the answer of M7

vars == <<pedido, entrada, estado, resposta>>

None == -1

Pedidos == {"pdf_v2", "rotas", "trajetos"}

Init ==
  /\ pedido \in Pedidos
  /\ entrada = <<>>
  /\ estado = "aberto"
  /\ resposta = <<>>

-----------------------------------------------------------------------------
(* filtrarHistoricoPorPeriodo, filtrarTrajetosPorPeriodo *)

\* Undated items pass the filter; the builders drop them later.
NoPeriodo(itens) == Those(itens, {i \in DOMAIN itens : itens[i].ts < Midnight})

-----------------------------------------------------------------------------
(* construirViagensEDiasPorHistorico *)

Ordenados(ps) == Sorted(ps, [i \in DOMAIN ps |-> ps[i].ts])

\* Mutant: every stop of the ignition is smoothed, however long.
SuavizadaSempre(ps, i) ==
  \/ ps[i].ignicao
  \/ \E a \in 2..i, b \in i + 1..Len(ps) :
       ps[a - 1].ignicao /\ ps[b].ignicao /\ \A k \in a..b - 1 : ~ps[k].ignicao

\* ignicaoSuavizada: an ignition that is off for at most two minutes between two
\* points with it on counts as on.
Suavizada(ps, i) ==
  \/ ps[i].ignicao
  \/ \E a \in 2..i, b \in i + 1..Len(ps) :
       /\ ps[a - 1].ignicao /\ ps[b].ignicao
       /\ \A k \in a..b - 1 : ~ps[k].ignicao
       /\ ps[b].ts - ps[a].ts <= 120

\* A cycle runs from a point with ignition, the first or after one without, to the next
\* without, which belongs to it, or to the last point of all.
Comeca(ps, i) == Suavizada(ps, i) /\ (i = 1 \/ ~Suavizada(ps, i - 1))
Ciclo(ps, i)  == <<i, Min({j \in i + 1..Len(ps) : ~Suavizada(ps, j) \/ j = Len(ps)})>>

Movendo(p) == p.velocidade > 3
Passos(ps, from, to) == {i \in from + 1..to : ps[i].ts - ps[i - 1].ts \in 1..600}

\* calcularDistanciaHaversineKm: its toRad divides by 40, not 180, so that along a
\* meridian it gives nine halves of the distance.
Haversine(p, q) == (9 * (IF p.pos < q.pos THEN q.pos - p.pos ELSE p.pos - q.pos)) \div 2

\* No more is believed of an odometer: 2000 km.
DeltaMaximo == 200000

\* distanciaKmBruta: the odometer from the first to the last moving point, where it
\* is known and ran no more than that, else the sum of the steps between them.
Distancia(ps, c, first, last) ==
  LET delta == ps[last].odometro - ps[first].odometro
  IN  IF /\ ps[first].odometro # None /\ ps[last].odometro # None
         /\ delta > 0 /\ delta <= DeltaMaximo
      THEN delta
      ELSE SumOf([i \in DOMAIN ps |-> IF i \in Passos(ps, first, last)
                                     THEN Haversine(ps[i - 1], ps[i]) ELSE 0], Len(ps))

Viagem(ps, c) ==
  LET moves == {i \in c[1]..c[2] : Movendo(ps[i])}
      first == Min(moves)
      last  == Max(moves)
      mov   == {i \in Passos(ps, c[1], c[2]) : Movendo(ps[i - 1]) \/ Movendo(ps[i])}
  IN  [ciclo |-> c, saida |-> ps[first].ts, chegada |-> ps[last].ts,
       distancia |-> Distancia(ps, c, first, last),
       movimento |-> SumOf([i \in DOMAIN ps |-> IF i \in mov THEN ps[i].ts - ps[i - 1].ts
                                               ELSE 0], Len(ps)),
       total |-> ps[c[2]].ts - ps[c[1]].ts,
       origem |-> ps[Max({c[1], first - 1})].pos,
       destino |-> ps[Min({c[2], last + 1})].pos]

\* Cycles with one moving point or none, of less than 20 m, or of at most 40 s of
\* movement are dropped.
Viajou(ps, c) ==
  /\ Cardinality({i \in c[1]..c[2] : Movendo(ps[i])}) > 1
  /\ Viagem(ps, c).distancia >= 2
  /\ Viagem(ps, c).movimento > 40

Viagens(pontos) ==
  LET ps == Ordenados(pontos)
      is == {i \in 1..Len(ps) - 1 : Comeca(ps, i) /\ Viajou(ps, Ciclo(ps, i))}
      from == Those([i \in DOMAIN ps |-> i], is)
  IN  [k \in DOMAIN from |-> Viagem(ps, Ciclo(ps, from[k]))]

-----------------------------------------------------------------------------
(* sanitizarPontosGps *)

\* A point less than 15 m and 5 s from the last one kept is dropped.  This distance
\* is the true one.
Rota(ps) ==
  LET kept[n \in 0..Len(ps)] ==
        IF n = 0 THEN <<>>
        ELSE LET ks == kept[n - 1]
                 p  == ps[n]
             IN  IF ks # <<>> /\ LET q == Last(ks) IN
                                 p.pos - q.pos \in -1..1 /\ p.ts - q.ts < 5
                 THEN ks ELSE Append(ks, p)
  IN  kept[Len(ps)]

-----------------------------------------------------------------------------
(* construirViagensEDias, and the PDF of gerarPdf *)

\* origem: the last valid address before the trip; destino: its own, or the next.
Enderecos(raw, i) ==
  LET antes  == {j \in 1..i - 1 : raw[j].destino}
      depois == {j \in i..Len(raw) : raw[j].destino}
  IN  [origem  |-> IF antes = {} THEN None ELSE Max(antes),
       destino |-> IF depois = {} THEN None ELSE Min(depois)]

Valida(t) == t.tipo = "VIAGEM" /\ t.distancia # 0 /\ t.movimento > 40

\* agruparViagensPorDia, and the total of all; the days of both are sorted.
Total(ts, is) ==
  SumOf([i \in DOMAIN ts |-> IF i \in is THEN ts[i].distancia ELSE 0], Len(ts))

Resumo(raw) ==
  LET is == {i \in 1..Len(raw) : Valida(raw[i])}
  IN  [viagens |-> is, total |-> Total(raw, is),
       enderecos |-> [i \in is |-> Enderecos(raw, i)]]

\* gerarPdf lists every item, the stops too.
Pdf(raw) == [viagens |-> DOMAIN raw, total |-> Total(raw, DOMAIN raw)]

-----------------------------------------------------------------------------
(* The requests *)

Receive(x, max) ==
  /\ estado = "aberto"
  /\ Len(entrada) < max
  /\ entrada' = Append(entrada, x)
  /\ UNCHANGED <<pedido, estado, resposta>>

Agora  == IF entrada = <<>> THEN 0 ELSE Last(entrada).ts
Aqui   == IF entrada = <<>> THEN 0 ELSE Last(entrada).pos

\* The next point: a vehicle that moves covers 200 m; odometers are all known or all
\* unknown, and run on while the position stands.
Ponto(gap, ignicao, moves, odometro) ==
  /\ pedido = "pdf_v2"
  /\ entrada # <<>> => (odometro <=> entrada[1].odometro # None)
  /\ LET pos == Aqui + IF moves THEN 20 ELSE 0 IN
     Receive([ts |-> Agora + gap, ignicao |-> ignicao, velocidade |-> IF moves THEN 50 ELSE 3,
              pos |-> pos, odometro |-> IF odometro THEN pos + Len(entrada) ELSE None],
             MaxPontos)

\* A point of the map: a crawling vehicle, a point every three seconds or more.
PontoDaRota(gap, pos) ==
  /\ pedido = "rotas"
  /\ Receive([ts |-> Agora + gap, ignicao |-> TRUE, velocidade |-> 5,
              pos |-> Aqui + pos, odometro |-> None], MaxRota)

Trajeto(tipo, movimento, distancia, destino) ==
  /\ pedido = "trajetos"
  /\ Receive([ts |-> Agora + 10, tipo |-> tipo, movimento |-> movimento,
              distancia |-> distancia, destino |-> destino], MaxTrajetos)

Responder(itens) ==
  CASE pedido = "pdf_v2"   -> Viagens(itens)
    [] pedido = "rotas"    -> Rota(itens)
    [] pedido = "trajetos" -> [resumo |-> Resumo(itens), pdf |-> Pdf(itens)]

\* consultarVeiculo found the vehicle.  Trajetos and the points of the map are
\* taken in the order in which they come, points for trips are sorted.
Answer(descending) ==
  /\ pedido \in Pedidos /\ estado = "aberto"
  /\ descending => pedido = "pdf_v2"
  /\ resposta' = Responder(NoPeriodo(IF descending THEN Reverse(entrada) ELSE entrada))
  /\ estado' = "respondido"
  /\ UNCHANGED <<pedido, entrada>>

\* consultarVeiculo does not know the vehicle, or a request to M7 fails.
AnswerError ==
  /\ pedido \in Pedidos /\ estado = "aberto"
  /\ estado' = "erro"
  /\ UNCHANGED <<pedido, entrada, resposta>>

Next ==
  \/ \E g \in Gaps, i, m, o \in BOOLEAN : Ponto(g, i, m, o)
  \/ \E g \in {3, 6}, d \in {0, 1} : PontoDaRota(g, d)
  \/ \E t \in {"VIAGEM", "PARADO"}, m \in {40, 41}, d \in {0, 7}, e \in BOOLEAN :
       Trajeto(t, m, d, e)
  \/ \E b \in BOOLEAN : Answer(b)
  \/ AnswerError

Spec == Init /\ [][Next]_vars

-----------------------------------------------------------------------------
(* Properties *)

Answered(p) == pedido = p /\ estado = "respondido"

\* The trips of the second PDF are what the vehicle drove in the period: they do
\* not overlap, none is longer in movement than in all, none stretches over a stop
\* of more than two minutes with the ignition off, and where the odometer is known
\* a trip has its distance; and no drive is lost: two moving points with ignition,
\* at most ten minutes apart, lie in one trip.
TripsAreDrives ==
  Answered("pdf_v2") =>
    LET ps == NoPeriodo(entrada)
        vs == resposta
        inside(v, i) == ps[i].ts \in v.saida..v.chegada
    IN
    /\ \A k \in DOMAIN vs : vs[k].saida < vs[k].chegada /\ vs[k].movimento <= vs[k].total
    /\ \A k \in 2..Len(vs) : vs[k - 1].chegada < vs[k].saida
    /\ \A v \in Range(vs), i, j \in DOMAIN ps :
         /\ inside(v, i) /\ inside(v, j) /\ ps[j].ts - ps[i].ts > 120
         => \E k \in i..j : ps[k].ignicao
    /\ \A v \in Range(vs) : ps # <<>> /\ ps[1].odometro # None =>
         v.distancia = LET of(t) == CHOOSE i \in DOMAIN ps : ps[i].ts = t
                       IN ps[of(v.chegada)].odometro - ps[of(v.saida)].odometro
    /\ \A i \in 2..Len(ps) :
         /\ ps[i - 1].ignicao /\ ps[i].ignicao
         /\ Movendo(ps[i - 1]) /\ Movendo(ps[i])
         /\ ps[i].ts - ps[i - 1].ts \in 41..600
         => \E v \in Range(vs) : inside(v, i - 1) /\ inside(v, i)

\* The route keeps the track of a vehicle that crawls: a point that is not on it has
\* one that is, less than 15 m and 5 s before it.
RouteKeepsTrack ==
  Answered("rotas") =>
    \A p \in Range(NoPeriodo(entrada)) :
      \E q \in Range(resposta) : p.pos - q.pos \in -1..1 /\ p.ts - q.ts \in 0..4

\* The two views of the same trajetos agree: the trips of the summary are lines of
\* the PDF, which tells at least their distance; every trip of the summary ran.
SummaryWithinPdf ==
  Answered("trajetos") =>
    /\ resposta.resumo.viagens \subseteq resposta.pdf.viagens
    /\ resposta.resumo.total <= resposta.pdf.total
    /\ \A i \in resposta.resumo.viagens : NoPeriodo(entrada)[i].tipo = "VIAGEM"

\* HistoricoM7ResumoDto: the distance of a trip is the one travelled, in km.
DistanceIsTravelled ==
  Answered("pdf_v2") =>
    \A v \in Range(resposta) : v.distancia <= Aqui
=============================================================================
