\* Two threads subscribe, unsubscribe and publish three messages, contending
\* for the mutex for ever; a third address, so that one can be reused.
CONSTANTS
    Threads = {t1, t2}
    Items = {i1, i2, i3}
    NULL = NULL
    MaxPublish = 3
SPECIFICATION Spec
INVARIANTS CallbackIsSubscribed SameOrderForAll
PROPERTIES PublishReachesAll 
