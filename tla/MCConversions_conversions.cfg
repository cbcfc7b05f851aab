SPECIFICATION Spec
INVARIANT PhrasesAreFaithful
INVARIANT CommentsRoundTrip
INVARIANT AnswersAreTrue
INVARIANT RowsAreExact
INVARIANT LinkMeansInvoice
INVARIANT DigestsAreExact
INVARIANT LinksSurvive
INVARIANT BocIsSound
PROPERTY ExchangeIsSound
CHECK_DEADLOCK FALSE
