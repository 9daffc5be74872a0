--------------------------- MODULE MCTelegramSend ---------------------------
EXTENDS TelegramSend

\* A send with everything, one that edits it and sends media, and a deletion.
Plain == [send |-> TRUE, rich |-> FALSE, media |-> 0, fits |-> TRUE, format |-> FALSE,
          edit |-> NoRef, ref |-> NoRef, aside |-> FALSE, delete |-> NoRef]
MCOrders ==
  <<[Plain EXCEPT !.rich = TRUE, !.format = TRUE, !.ref = "r"],
    [Plain EXCEPT !.media = 1, !.fits = FALSE, !.edit = "r", !.aside = TRUE],
    [Plain EXCEPT !.send = FALSE, !.aside = TRUE, !.delete = "r"]>>
=============================================================================
