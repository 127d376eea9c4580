SPECIFICATION Spec
CONSTANTS Workers = {w1, w2}
          Texts <- MCTexts
          Uri <- MCUri
          MAXLINE = 3
          RIO_BUFSIZE = 3
          PieceSize = 2
          StdoutTty = TRUE
INVARIANTS LinesFaithful HeadersFirst AnswerInOrder AnswerWhole WaitersMatchChildren
PROPERTY RequestsEnd
CHECK_DEADLOCK FALSE
