------------------------------ MODULE Layouts ------------------------------
(***************************************************************************)
(* Where the cards go: the window's grid (ui/fit.rs and the grid part of   *)
(* ui/mod.rs) and the live view's panels (cli/live/draw.rs).  Operators    *)
(* only.  Lengths are whole points or cells, zooms thousandths.            *)
(***************************************************************************)
EXTENDS Panels

Gap == 10
Padding == 13
MinZoom == 750
MaxZoom == 2500

-----------------------------------------------------------------------------
(* The card list, <<card, index>>, and what each card asks of the grid.    *)
When(show, card) == IF show THEN <<card>> ELSE <<>>
CardList(s) ==
  When(s.cpu # {}, <<"cpu", 0>>) \o [k \in DOMAIN s.gpu |-> <<"gpu", k>>]
    \o When(s.igpu # {}, <<"igpu", 0>>) \o When(s.ram # {}, <<"ram", 0>>) \o <<<<"net", 0>>>>
    \o When(s.battery # {}, <<"battery", 0>>) \o When(s.storage # <<>>, <<"storage", 0>>)
    \o When(HasContent(s), <<"sensors", 0>>)

\* Mutant: the signature leaves out the number of disks.
CardSetSignatureNoDisks(s) == [cards |-> CardList(s), disks |-> 0]

\* What the cached plan depends on besides the window; an injective hash.
CardSetSignature(s) == [cards |-> CardList(s), disks |-> Len(s.storage)]

\* The ladder of heights, fullest first; storage has one rung per disk.
Tiers(card, disks) ==
  CASE card = "battery" -> <<138>>
    [] card = "sensors" -> <<302, 238, 212, 140, 108>>
    [] card = "storage" -> LET n == Max({1, disks}) IN [k \in 1..n |-> 72 + 46 * (n + 1 - k)]
    [] OTHER -> <<302, 238, 212>>
Metrics(s) ==
  LET cards == CardList(s)
  IN [k \in DOMAIN cards |->
        [span |-> IF cards[k][1] = "storage" THEN 2 ELSE 1, elastic |-> cards[k][1] = "storage",
         reserves |-> cards[k][1] \in {"net", "battery", "sensors"},
         tiers |-> Tiers(cards[k][1], Len(s.storage))]]

-----------------------------------------------------------------------------
(* fit.rs                                                                  *)
NaturalWidth(cols) == cols * 287 + (cols - 1) * Gap + 2 * Padding
\* Storage takes what the reserved cards of its row leave free.
EffectiveSpans(cards, cols) ==
  LET reserved == Cardinality({k \in DOMAIN cards : cards[k].reserves})
      Base(k) == Min({cards[k].span, cols})
  IN [k \in DOMAIN cards |->
        IF ~cards[k].elastic THEN Base(k)
        ELSE IF reserved > 0 THEN Min({cols, Max({2, cols - reserved})})
        ELSE IF k = Len(cards) THEN cols ELSE Base(k)]
\* Rows of card indices, filled greedily.
PackRows(spans, cols) ==
  LET Used(row) == FoldSeq(LAMBDA k, acc : spans[k] + acc, 0, row)
      Put(rows, k) == IF rows # <<>> /\ Used(Last(rows)) + spans[k] <= cols
                      THEN [rows EXCEPT ![Len(rows)] = Append(@, k)] ELSE Append(rows, <<k>>)
  IN FoldLeft(Put, <<>>, [k \in DOMAIN spans |-> k])
HeightAt(card, shed) == card.tiers[Min({shed + 1, Len(card.tiers)})]
RowHeights(cards, cols, shed) ==
  LET Of(rows) == [r \in DOMAIN rows |->
                     MaxOf({HeightAt(cards[rows[r][j]], shed) : j \in DOMAIN rows[r]})]
  IN Of(PackRows(EffectiveSpans(cards, cols), cols))
GridHeight(cards, cols, shed) ==
  LET Of(rows) == IF rows = <<>> THEN 2 * Padding
                  ELSE Total(rows) + Gap * (Len(rows) - 1) + 2 * Padding
  IN Of(RowHeights(cards, cols, shed))
DeepestShed(cards) == Max({0} \cup {Len(cards[k].tiers) - 1 : k \in DOMAIN cards})
\* The least destructive rung that fits, else the deepest.
ShedFor(cards, cols, target) ==
  Min({DeepestShed(cards)}
      \cup {tier \in 0..DeepestShed(cards) : GridHeight(cards, cols, tier) <= target})

\* The column count that fills the window best, wider on ties, and its zoom.
Plan(cards, w, h, chrome) ==
  LET candidates == {4, 3, 2} \cup (IF w * 1000 < MinZoom * NaturalWidth(2) THEN {1} ELSE {})
      Fit(cols) == Min({(w * 1000) \div NaturalWidth(cols),
                        (h * 1000) \div (GridHeight(cards, cols, 0) + chrome)})
      Best(fits) == CHOOSE c \in fits : \A d \in fits :
                      d[1] < c[1] \/ (d[1] = c[1] /\ d[2] <= c[2])
      Of(best) == [cols |-> best[2], zoom |-> Max({MinZoom, Min({MaxZoom, best[1]})})]
  IN Of(Best({<<Fit(c), c>> : c \in candidates}))

\* plan_for: the plan cached under the window's size, chrome and card set.
PlanFor(cache, s, win) ==
  LET key == [w |-> win.w, h |-> win.h, chrome |-> win.chrome, cards |-> CardSetSignature(s)]
  IN IF \E c \in cache : c.key = key THEN cache
     ELSE {[key |-> key, plan |-> Plan(Metrics(s), win.w, win.h, win.chrome)]}
\* apply_zoom: changes within one per cent are left alone.
ApplyZoom(current, zoom) ==
  IF 100 * zoom > 101 * current \/ 100 * zoom < 99 * current THEN zoom ELSE current
\* The panel's height in points at a zoom, grid padding included.
PanelHeight(win, zoom) == Max({0, (win.h * 1000) \div zoom - win.chrome})

\* Capacity::from_card_size: how many stats a card of this size shows.
FromCardSize(width, height) ==
  IF width < 300 THEN 3
  ELSE IF height >= 302 THEN 11 ELSE IF height >= 238 THEN 8 ELSE IF height >= 212 THEN 6
  ELSE IF height >= 140 THEN 4 ELSE 2

\* layout_cards: a rectangle and a capacity per card; the height left over
\* is shared by the rows.
CardRects(names, spans, rows, heights, room, width, cols) ==
  LET share == Max({0, (room - Total(heights) - Gap * (Len(rows) - 1)) \div Max({1, Len(rows)})})
      col == Max({1, (width - Gap * (cols - 1)) \div cols})
      Width(span) == col * span + Gap * (span - 1)
      Placed(k, r) ==
        [card |-> names[k], w |-> Width(spans[k]), h |-> heights[r] + share,
         x |-> FoldSet(LAMBDA j, acc : Width(spans[j]) + Gap + acc, 0,
                       {j \in 1..(k - 1) : Contains(rows[r], j)}),
         y |-> FoldSet(LAMBDA q, acc : heights[q] + share + Gap + acc, 0, 1..(r - 1)),
         rows |-> FromCardSize(Width(spans[k]), heights[r] + share)]
  IN [k \in DOMAIN names |-> Placed(k, CHOOSE r \in DOMAIN rows : Contains(rows[r], k))]
LayoutCards(s, plan, zoom, win) ==
  LET In(cards, panel) ==
        LET spans == EffectiveSpans(cards, plan.cols)
        IN CardRects(CardList(s), spans, PackRows(spans, plan.cols),
                     RowHeights(cards, plan.cols, ShedFor(cards, plan.cols, panel)),
                     panel - 2 * Padding, (win.w * 1000) \div zoom - 2 * Padding, plan.cols)
  IN In(Metrics(s), PanelHeight(win, zoom))

-----------------------------------------------------------------------------
(* draw.rs: the live view.  Panels are named like the cards.               *)
LivePanels(s) ==
  When(s.cpu # {}, <<"cpu", 0>>) \o [k \in DOMAIN s.gpu |-> <<"gpu", k>>]
    \o When(s.igpu # {}, <<"igpu", 0>>) \o When(s.ram # {}, <<"ram", 0>>)
    \o When(s.net # {}, <<"net", 0>>) \o When(s.battery # {}, <<"battery", 0>>)
    \o When(s.storage # <<>>, <<"storage", 0>>) \o When(HasContent(s), <<"sensors", 0>>)
Group(p) == CASE p[1] = "cpu" -> 0 [] p[1] \in {"gpu", "igpu"} -> 1
              [] p[1] \in {"ram", "net", "battery"} -> 2 [] OTHER -> 3
MinWidth(p) == CASE p[1] = "cpu" -> 50 [] p[1] \in {"gpu", "igpu"} -> 34
                 [] p[1] \in {"ram", "net"} -> 30 [] p[1] = "storage" -> 40 [] OTHER -> 24
Weight(p) == CASE p[1] = "storage" -> 5 [] p[1] = "sensors" -> 3 [] OTHER -> 1
DropRank(p) == CASE p[1] = "cpu" -> 0 [] p = <<"gpu", 1>> \/ p[1] = "ram" -> 1 [] p[1] = "net" -> 2
                 [] p[1] = "storage" -> 3 [] p[1] = "gpu" /\ p[2] # 1 -> 4 [] p[1] = "igpu" -> 5
                 [] p[1] = "battery" -> 6 [] OTHER -> 7
Grows(p) == p[1] \notin {"battery", "storage", "sensors"}
\* widgets.rs: a stat is 18 cells wide, two cells apart.
GridRows(count, width) ==
  LET columns == Max({1, (width + 2) \div 20}) IN (count + columns - 1) \div columns
PanelRows(s, p, width) ==
  LET inner == width - 2
  IN 2 + CASE p[1] = "ram" -> FoldSet(LAMBDA r, acc : 2 + GridRows(Len(RamStats(r)), inner), 0, s.ram)
           [] p[1] = "battery" ->
                FoldSet(LAMBDA b, acc : 1 + GridRows(Len(BatteryStats(b)), inner), 0, s.battery)
           [] p[1] = "storage" -> 1 + Len(s.storage)
           [] p[1] = "sensors" -> Min({6, GridRows(Len(SensorStats(s)), inner)})
           [] OTHER -> 5

\* place: one row per group, wrapped where it is too narrow; the rows with
\* charts share the spare height.  {} when the panels do not fit.
GroupRows(panels, width) ==
  LET Wide(row) == FoldSeq(LAMBDA p, acc : MinWidth(p) + acc, 0, row)
      Put(rows, p) == IF /\ rows # <<>> /\ Group(Last(rows)[1]) = Group(p)
                         /\ Wide(Last(rows)) + MinWidth(p) <= width
                      THEN [rows EXCEPT ![Len(rows)] = Append(@, p)] ELSE Append(rows, <<p>>)
  IN FoldLeft(Put, <<>>, panels)
\* Where the first n panels of a row end.
Edge(row, n, width) ==
  LET Weights(k) == FoldSet(LAMBDA j, acc : Weight(row[j]) + acc, 0, 1..k)
  IN (width * Weights(n)) \div Weights(Len(row))
RowNeeds(s, rows, width) ==
  [r \in DOMAIN rows |->
     MaxOf({PanelRows(s, rows[r][j], Edge(rows[r], j, width) - Edge(rows[r], j - 1, width))
            : j \in DOMAIN rows[r]})]
\* The spare height goes to the growing rows, the remainder to the first.
Stretched(needs, growing, height) ==
  LET spare == height - Total(needs)
  IN [r \in DOMAIN needs |->
        needs[r] + IF r \notin growing THEN 0
                   ELSE spare \div Cardinality(growing)
                        + IF r = Min(growing) THEN spare % Cardinality(growing) ELSE 0]
Rects(rows, heights, width) ==
  UNION {{[panel |-> rows[r][j], x |-> Edge(rows[r], j - 1, width),
           w |-> Edge(rows[r], j, width) - Edge(rows[r], j - 1, width),
           y |-> Total(SubSeq(heights, 1, r - 1)), h |-> heights[r]]
          : j \in DOMAIN rows[r]} : r \in DOMAIN rows}
Place(s, panels, area) ==
  LET Rows(rows, needs) ==
        LET growing == {r \in DOMAIN rows : \E j \in DOMAIN rows[r] : Grows(rows[r][j])}
        IN IF Total(needs) > area.h THEN {}
           ELSE {Rects(rows, Stretched(needs, growing, area.h), area.w)}
      Needing(rows) == Rows(rows, RowNeeds(s, rows, area.w))
  IN Needing(GroupRows(panels, area.w))
Fits(s, panels, area) == Place(s, panels, area) # {}
Without(panels, p) == SelectSeq(panels, LAMBDA q : q # p)
\* The panel to go: the highest rank, the last of equals.
LeastImportant(panels) ==
  panels[CHOOSE k \in DOMAIN panels : \A j \in DOMAIN panels :
           DropRank(panels[j]) < DropRank(panels[k])
             \/ (DropRank(panels[j]) = DropRank(panels[k]) /\ j <= k)]
Shrunk(s, all, area) ==
  LET Drop(acc, k) == IF acc.shown = <<>> \/ Fits(s, acc.shown, area) THEN acc
                      ELSE LET p == LeastImportant(acc.shown)
                           IN [shown |-> Without(acc.shown, p), dropped |-> <<p>> \o acc.dropped]
  IN FoldLeft(Drop, [shown |-> all, dropped |-> <<>>], [k \in DOMAIN all |-> k])

\* Mutant: panels left out on the way are not given back.
LayoutNoGiveBack(s, area) == Shrunk(s, LivePanels(s), area).shown

\* layout: leave out until the rest fits, then give back what still fits,
\* the most important first.
Layout(s, area) ==
  LET GiveBack(shown, p, all) ==
        LET Try(trial) == IF Fits(s, trial, area) THEN trial ELSE shown
        IN Try(SelectSeq(all, LAMBDA q : q = p \/ Contains(shown, q)))
      Filled(all, shrunk) ==
        FoldLeft(LAMBDA shown, p : GiveBack(shown, p, all), shrunk.shown, shrunk.dropped)
      Of(all) == Filled(all, Shrunk(s, all, area))
  IN Of(LivePanels(s))
\* draw: below the smallest terminal only a request for room; the last line
\* is the footer.
Body(term) == [w |-> term.w, h |-> term.h - 1]
Draws(term) == term.w >= 50 /\ term.h >= 10
=============================================================================
