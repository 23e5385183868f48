--------------------------- MODULE LogicaHistory ---------------------------
(***************************************************************************)
(* The history of a vehicle of Logica.  LogicaHistoricoService asks at the *)
(* same time for the positions (/mobile/posicao) and for the trajeto, whose *)
(* own positions serve where the first are missing, and the mapper makes   *)
(* trips of them; TrajetosService makes the timeline of the PDF of the     *)
(* trajeto alone.                                                          *)
(*                                                                         *)
(* Posicao and Registro give what Logica has, in chronological order.      *)
(* Positions are counted in units of 400 m along a line, instants in       *)
(* minutes from the first one, and a day ends after Meianoite minutes.    *)
(***************************************************************************)
EXTENDS SeqParts, SequencesExt

CONSTANTS
  MaxPosicoes,   \* bound: positions of an answer
  MaxRegistros,  \* bound: positions and stops of an answer for the PDF
  Meianoite      \* minutes from the first position to the end of its day

VARIABLES
  pedido,    \* the request: "logica" (summary and map) or "logica_pdf"
  entrada,   \* what Logica has for it
  estado,    \* "aberto", "respondido" or "erro"
  resposta   \* what the service makes of the answer of Logica

vars == <<pedido, entrada, estado, resposta>>

None == -1

Pedidos == {"logica", "logica_pdf"}

Init ==
  /\ pedido \in Pedidos
  /\ entrada = <<>>
  /\ estado = "aberto"
  /\ resposta = <<>>

-----------------------------------------------------------------------------
(* segmentarViagens *)

\* converterPosicoes: a fix without signal is dropped; the rest is sorted.
Pontos(posicoes) ==
  LET ps == Those(posicoes, {i \in DOMAIN posicoes : posicoes[i].valida})
  IN  Sorted(ps, [i \in DOMAIN ps |-> ps[i].ts])

\* Point n either carries on the last stop, which lasts while the speed is zero or the
\* position is still the one where it started, or starts one, at speed zero.
ComPonto(ps, stops, n) ==
  IF /\ stops # <<>> /\ Last(stops).terminator = n
     /\ ps[n].velocidade = 0 \/ ps[n].pos = ps[Last(stops).start].pos
  THEN [stops EXCEPT ![Len(stops)].terminator = n + 1]
  ELSE IF ps[n].velocidade = 0
  THEN Append(stops, [start |-> n, terminator |-> n + 1])
  ELSE stops

\* detectarParadas
Paradas(ps) ==
  LET upTo[n \in 0..Len(ps)] == IF n = 0 THEN <<>> ELSE ComPonto(ps, upTo[n - 1], n)
  IN  upTo[Len(ps)]

\* primeiraEmMovimento, in de..ate - 1.
PrimeiraEmMovimento(ps, de, ate) ==
  LET moving == {i \in de..ate - 1 : ps[i].velocidade > 0}
  IN  IF moving = {} THEN None ELSE Min(moving)

Desloca(ps, de, ate) == \E i \in de + 1..ate : ps[i].pos # ps[de].pos

\* Mutant: every stop ends the trip, also where the vehicle has not moved.
EntreTodasAsParadas(ps, stops) ==
  [k \in 1..Len(stops) - 1 |->
     <<PrimeiraEmMovimento(ps, stops[k].start, stops[k + 1].start), stops[k + 1].start>>]

\* The trips up to stop n, where a.k is the stop that the last of them ended at: the
\* next runs from the first moving point since that stop started to the first stop at
\* another place.
ComParada(ps, stops, a, n) ==
  LET inicio == PrimeiraEmMovimento(ps, stops[a.k].start, stops[a.k + 1].start)
  IN  IF inicio = None THEN [a EXCEPT !.k = n]
      ELSE IF ~Desloca(ps, inicio, stops[n].start) THEN a
      ELSE [k |-> n, trechos |-> Append(a.trechos, <<inicio, stops[n].start>>)]

\* Between the stops; frozen points up to the last stop are no trip.
EntreParadas(ps, stops) ==
  LET upTo[n \in 0..Len(stops) - 1] ==
        IF n = 0 THEN [k |-> 1, trechos |-> <<>>]
        ELSE ComParada(ps, stops, upTo[n - 1], n + 1)
  IN  upTo[Len(stops) - 1].trechos

\* The period ends with the vehicle moving.
BordaFinal(ps, stops) ==
  IF Last(stops).terminator > Len(ps) THEN <<>>
  ELSE <<<<PrimeiraEmMovimento(ps, Last(stops).start, Len(ps) + 1), Len(ps)>>>>

Trechos(ps) ==
  LET stops == Paradas(ps)
      n     == Len(ps)
  IN  IF n = 0 THEN <<>>
      ELSE IF stops = <<>> THEN <<<<PrimeiraEmMovimento(ps, 1, n + 1), n>>>>
      ELSE <<<<PrimeiraEmMovimento(ps, 1, stops[1].start), stops[1].start>>>>
             \o EntreParadas(ps, stops) \o BordaFinal(ps, stops)

Abs(x) == IF x < 0 THEN -x ELSE x

\* The way from point a to point b.
Percurso(ps, a, b) ==
  SumOf([n \in 1..b - a |-> Abs(ps[a + n].pos - ps[a + n - 1].pos)], b - a)

\* Mutant: the anchor keeps its own instant.
TrilhaSemGrampo(ps, ancora, t) == SubSeq(ps, ancora, t[2])

\* The trail starts at the anchor, the point before the first moving one, whose
\* instant is clamped to the start of the trip.
Trilha(ps, ancora, t) ==
  [SubSeq(ps, ancora, t[2]) EXCEPT ![1].ts = ps[t[1]].ts]

\* enriquecerEnderecosComParadas: the nearest stop with an address, within 500 m.
Endereco(pos, paradas) ==
  LET near == {q \in paradas : Abs(q - pos) <= 1}
  IN  IF near = {} THEN None
      ELSE CHOOSE q \in near : \A r \in near : Abs(q - pos) <= Abs(r - pos)

\* montarViagem: the duration is that of the trip, the distance that of the trail.
Viagem(ps, t, paradas) ==
  LET ancora == Max({1, t[1] - 1})
  IN  [trecho |-> t, inicio |-> ps[t[1]].ts, fim |-> ps[t[2]].ts,
       distancia |-> Percurso(ps, ancora, t[2]),
       pontos |-> Trilha(ps, ancora, t),
       adr |-> <<Endereco(ps[t[1]].pos, paradas), Endereco(ps[t[2]].pos, paradas)>>]

Viagens(ps, paradas) ==
  LET todos == Trechos(ps)
      ts    == Those(todos, {k \in DOMAIN todos : /\ todos[k][1] # None
                                                  /\ todos[k][1] < todos[k][2]})
  IN  [k \in DOMAIN ts |-> Viagem(ps, ts[k], paradas)]

-----------------------------------------------------------------------------
(* The shape of Softruck *)

\* epochParaAcc
Acc(ts) == ts \div Meianoite

\* mapearResumoDias: the trips by the day on which they start.
Dias(vs) ==
  [acc \in {Acc(v.inicio) : v \in Range(vs)} |->
     Those(vs, {k \in DOMAIN vs : Acc(vs[k].inicio) = acc})]

\* mapearRotasFeatures: every point, on the day of its own.
Features(vs) ==
  FlattenSeq([k \in DOMAIN vs |->
    [i \in DOMAIN vs[k].pontos |->
       [act |-> vs[k].pontos[i].ts, acc |-> Acc(vs[k].pontos[i].ts), pos |-> vs[k].pontos[i].pos]]])

-----------------------------------------------------------------------------
(* montarLinhaDoTempo *)

\* A date that cannot be read goes to the end.
Ordem(r) == IF r.ts = None THEN 2 * Meianoite ELSE r.ts

PorOrdem(rs) == Sorted(rs, [i \in DOMAIN rs |-> Ordem(rs[i])])

\* The first record of an instant and a place stays.
Unicos(rs) ==
  LET key(i) == <<rs[i].ts, rs[i].pos>>
      first  == {i \in DOMAIN rs : \A j \in 1..i - 1 : key(j) # key(i)}
  IN  Those(rs, first)

\* An empty ignition is the last known one.
Preenchida(rs) ==
  [i \in DOMAIN rs |->
     LET told == {j \in 1..i : rs[j].ignicao # ""}
     IN  IF told = {} THEN rs[i] ELSE [rs[i] EXCEPT !.ignicao = rs[Max(told)].ignicao]]

\* Mutant: the ignition is carried on before the records are sorted.
LinhaPreenchidaAntes(rs) ==
  PorOrdem(Preenchida(Unicos(rs)))

LinhaDoTempo(rs) == Preenchida(PorOrdem(Unicos(rs)))

\* The positions, then the stops at the instant at which they begin.
Registros(rs) ==
  Those(rs, {i \in DOMAIN rs : ~rs[i].parada}) \o Those(rs, {i \in DOMAIN rs : rs[i].parada})

-----------------------------------------------------------------------------
(* The requests *)

Agora == IF entrada = <<>> THEN 0 ELSE Last(entrada).ts
Aqui  == IF entrada = <<>> THEN 0 ELSE Last(entrada).pos

Receive(x, max) ==
  /\ estado = "aberto"
  /\ Len(entrada) < max
  /\ entrada' = Append(entrada, x)
  /\ UNCHANGED <<pedido, estado, resposta>>

\* The next position: a GPS may stand still at a speed, or drift at none.
Posicao(velocidade, passo, valida) ==
  /\ pedido = "logica"
  /\ Receive([ts |-> Agora + 1, pos |-> Aqui + passo, velocidade |-> velocidade,
              valida |-> valida], MaxPosicoes)

\* A position, or the stop that began at the instant ts.
Registro(parada, ts, pos, ignicao) ==
  /\ pedido = "logica_pdf"
  /\ Receive([parada |-> parada, ts |-> ts, pos |-> pos, ignicao |-> ignicao], MaxRegistros)

\* obterResumo and obterRotas ask Logica each for itself; here they get the same.
Historico(posicoes, paradas) ==
  LET ps == Pontos(posicoes)
      vs == Viagens(ps, paradas)
  IN  [pontos |-> ps, viagens |-> vs, dias |-> Dias(vs), features |-> Features(vs)]

\* /mobile/posicao answered: its positions make the trips, in whatever order.
Answer(descending, paradas) ==
  /\ pedido = "logica" /\ estado = "aberto"
  /\ entrada # <<>>
  /\ resposta' = Historico(IF descending THEN Reverse(entrada) ELSE entrada, paradas)
  /\ estado' = "respondido"
  /\ UNCHANGED <<pedido, entrada>>

\* It failed, was no JSON, refused the token twice or had nothing: the positions of
\* the trajeto are taken, of which Logica leaves a few.
AnswerFallback(paradas) ==
  /\ pedido = "logica" /\ estado = "aberto"
  /\ LET few == {i \in DOMAIN entrada : i % 2 = 1}
     IN resposta' = Historico(Those(entrada, few), paradas)
  /\ estado' = "respondido"
  /\ UNCHANGED <<pedido, entrada>>

\* obterRelatorio: the vehicle is known.
AnswerPdf ==
  /\ pedido = "logica_pdf" /\ estado = "aberto"
  /\ resposta' = LinhaDoTempo(Registros(entrada))
  /\ estado' = "respondido"
  /\ UNCHANGED <<pedido, entrada>>

\* The vehicle is not in the list, or the trajeto or the PDF fails.
AnswerError ==
  /\ pedido \in Pedidos /\ estado = "aberto"
  /\ estado' = "erro"
  /\ UNCHANGED <<pedido, entrada, resposta>>

Next ==
  \/ \E v \in {0, 30}, d \in {-1, 0, 1} : Posicao(v, d, TRUE)
  \/ Posicao(0, 1, FALSE)
  \/ \E p \in BOOLEAN, ts \in {None, 1, 2}, pos \in {0, 1}, ig \in {"", "LIGADA", "DESLIGADA"} :
       Registro(p, ts, pos, ig)
  \/ \E b \in BOOLEAN, ps \in {{}, {1}} : Answer(b, ps)
  \/ \E ps \in {{}, {1}} : AnswerFallback(ps)
  \/ AnswerPdf
  \/ AnswerError

Spec == Init /\ [][Next]_vars

-----------------------------------------------------------------------------
(* Properties *)

Answered(p) == pedido = p /\ estado = "respondido"

\* The trips of Logica are the drives: one after the other, none that never left its
\* place unless the period cuts it, none lost: two moving points in a row at
\* different places lie in one trip, and so do those on the way from one to another.
DrivesAreTrips ==
  Answered("logica") =>
    LET ps == resposta.pontos
        vs == resposta.viagens
        stopped(i) == ps[i].velocidade = 0
    IN
    /\ \A k \in 2..Len(vs) : vs[k - 1].trecho[2] < vs[k].trecho[1]
    /\ \A v \in Range(vs) :
         (\E i \in 1..v.trecho[1] : stopped(i)) /\ stopped(v.trecho[2])
           => Desloca(ps, v.trecho[1], v.trecho[2])
    /\ \A i \in 2..Len(ps) :
         ~stopped(i - 1) /\ ~stopped(i) /\ ps[i].pos # ps[i - 1].pos
           => \E v \in Range(vs) : v.trecho[1] < i /\ i <= v.trecho[2]

\* The app draws of a trip the points between its start and its end: they make up
\* the distance of the trip, and the summary and the map have it on the same day.
MapTellsTheTrip ==
  Answered("logica") =>
    \A v \in Range(resposta.viagens) :
      LET drawn == Those(v.pontos, {i \in DOMAIN v.pontos : v.pontos[i].ts \in v.inicio..v.fim})
      IN  /\ Percurso(drawn, 1, Len(drawn)) = v.distancia
          /\ \E f \in Range(resposta.features) :
               f.act = v.inicio /\ v \in Range(resposta.dias[f.acc])

\* The timeline of the PDF: each instant and place once, in their order, what has no
\* date last; and with each the ignition that the records kept told last, none only
\* where none was told before.
TimelineCarriesIgnition ==
  Answered("logica_pdf") =>
    LET kept == {r \in Range(entrada) : r.ignicao # ""} \cap Range(Unicos(Registros(entrada)))
    IN
    /\ \A i, j \in DOMAIN resposta :
         i < j => /\ Ordem(resposta[i]) <= Ordem(resposta[j])
                  /\ <<resposta[i].ts, resposta[i].pos>> # <<resposta[j].ts, resposta[j].pos>>
    /\ \A r \in Range(resposta) :
         LET before == {k \in kept : Ordem(k) < Ordem(r)}
             last   == {k \in before : \A l \in before : Ordem(l) <= Ordem(k)}
             now    == {k \in kept : Ordem(k) = Ordem(r)}
         IN  r.ignicao \in {k.ignicao : k \in now \cup last}
                             \cup (IF before = {} THEN {""} ELSE {})
=============================================================================
